---------------------------- MODULE Spec2Model ----------------------------
(***************************************************************************)
(* Model of the TSE ingestion pipeline of veleitoral_api: src/ingestor.py  *)
(* (column resolver, file-name parsing, per-file processing, ingest_all)   *)
(* and the endpoints of src/main.py that drive it (upload, reload).        *)
(*                                                                         *)
(* Text is modelled as sequences of one-character strings, so that upper-  *)
(* casing, substring search, regular-expression matching, sorting and      *)
(* numeric parsing are computed, not assumed.  NULO stands for pandas'     *)
(* missing value (None / NaN) in a text cell.                              *)
(*                                                                         *)
(* ingest_all reads its directory from the global DATA_DIR                 *)
(* (ingestor.py:565, 571), a name that ingestor.py never binds: as the     *)
(* file stands the call stops there with a NameError, after the DROP       *)
(* statements.  The comments at ingestor.py:12-16 and the messages of      *)
(* main.py:287, 358 place the directory on the upload volume; the model    *)
(* binds DATA_DIR to the volume and lists its CSV files there.             *)
(*                                                                         *)
(* Specifications: Spec (uploads and sequential calls), SpecLote (a batch  *)
(* with files that cannot be loaded and appends the database rejects),     *)
(* SpecConcorrente (two reload requests in two worker threads),           *)
(* SpecServico (start-up, a read query and clear-volume beside a reload),  *)
(* and, for the pure functions, SpecArquivo, SpecColunas, SpecNome and     *)
(* SpecClasse.                                                             *)
(***************************************************************************)
EXTENDS Integers, Sequences, FiniteSets, TLC

VARIABLES
    volume,     \* the CSV files on the upload volume: a set of files, one per name
    pasta,      \* whether the directory of the volume exists
    db,         \* the SQLite tables: name -> [existe, linhas]
    indices,    \* the SQLite indexes that exist (names)
    exec,       \* the ingest_all / reload_dados call in progress
    outra,      \* a second call, served by another worker thread
    sem_espaco, \* names of the files whose append the database rejects
    resposta,   \* what the last finished call returned
    nUploads,   \* uploads accepted so far
    nExec,      \* ingest_all calls started so far
    historia,   \* history: the ingest_all calls that ended, oldest first
    pedido,     \* the last request served other than an upload or a reload
    entrada,    \* input of the pure-function specifications
    saida       \* their output

vars == <<volume, pasta, db, indices, exec, outra, sem_espaco, resposta, nUploads, nExec, historia, pedido, entrada, saida>>

----------------------------------------------------------------------------
(* Bounds *)

MaxUploads == 2
MaxExec == 2
MaxLinhas == 2
MaxPedidos == 3

----------------------------------------------------------------------------
(* Text *)

\* The characters of the model, in code-point order.
Alfabeto ==
    << " ", "#", "-", ".", "0", "1", "2", "3", "4", "5", "6", "7", "8", "9", "A", "B", "C", "D", "E", "F", "G", "H", "I", "J", "K", "L", "M", "N", "O", "P",
       "Q", "R", "S", "T", "U", "V", "W", "X", "Y", "Z", "_", "a", "b", "c", "d", "e", "f", "g", "h", "i", "j", "k", "l", "m", "n", "o", "p", "q", "r", "s", "t", "u", "v", "w", "x", "y", "z" >>

Minusculas ==
    << "a", "b", "c", "d", "e", "f", "g", "h", "i", "j", "k", "l", "m", "n", "o", "p", "q", "r", "s", "t", "u", "v", "w", "x", "y", "z" >>
Maiusculas ==
    << "A", "B", "C", "D", "E", "F", "G", "H", "I", "J", "K", "L", "M", "N", "O", "P", "Q", "R", "S", "T", "U", "V", "W", "X", "Y", "Z" >>
Digitos ==
    << "0", "1", "2", "3", "4", "5", "6", "7", "8", "9" >>

NULO == <<"<NA>">>

\* Column names read by the pipeline.
QT_VOTOS_NOMINAIS == <<"Q", "T", "_", "V", "O", "T", "O", "S", "_", "N", "O", "M", "I", "N", "A", "I", "S">>
QT_VOTOS_NOMINAIS_VALIDOS == <<"Q", "T", "_", "V", "O", "T", "O", "S", "_", "N", "O", "M", "I", "N", "A", "I", "S", "_", "V", "A", "L", "I", "D", "O", "S">>
QT_VOTOS == <<"Q", "T", "_", "V", "O", "T", "O", "S">>
QT_VOTOS_VALIDOS == <<"Q", "T", "_", "V", "O", "T", "O", "S", "_", "V", "A", "L", "I", "D", "O", "S">>
NM_CANDIDATO == <<"N", "M", "_", "C", "A", "N", "D", "I", "D", "A", "T", "O">>
NM_URNA_CANDIDATO == <<"N", "M", "_", "U", "R", "N", "A", "_", "C", "A", "N", "D", "I", "D", "A", "T", "O">>
SG_PARTIDO == <<"S", "G", "_", "P", "A", "R", "T", "I", "D", "O">>
NM_PARTIDO == <<"N", "M", "_", "P", "A", "R", "T", "I", "D", "O">>
NR_ZONA == <<"N", "R", "_", "Z", "O", "N", "A">>
NR_SECAO == <<"N", "R", "_", "S", "E", "C", "A", "O">>
ANO_ELEICAO == <<"A", "N", "O", "_", "E", "L", "E", "I", "C", "A", "O">>
SG_UF == <<"S", "G", "_", "U", "F">>
NR_TURNO == <<"N", "R", "_", "T", "U", "R", "N", "O">>
CD_MUNICIPIO == <<"C", "D", "_", "M", "U", "N", "I", "C", "I", "P", "I", "O">>
NM_MUNICIPIO == <<"N", "M", "_", "M", "U", "N", "I", "C", "I", "P", "I", "O">>
CD_CARGO == <<"C", "D", "_", "C", "A", "R", "G", "O">>
DS_CARGO == <<"D", "S", "_", "C", "A", "R", "G", "O">>
NR_CANDIDATO == <<"N", "R", "_", "C", "A", "N", "D", "I", "D", "A", "T", "O">>
DS_SIT_TOT_TURNO == <<"D", "S", "_", "S", "I", "T", "_", "T", "O", "T", "_", "T", "U", "R", "N", "O">>
DS_SITUACAO_CANDIDATURA == <<"D", "S", "_", "S", "I", "T", "U", "A", "C", "A", "O", "_", "C", "A", "N", "D", "I", "D", "A", "T", "U", "R", "A">>
QT_TOTAL_VOTOS_LEG_VALIDOS == <<"Q", "T", "_", "T", "O", "T", "A", "L", "_", "V", "O", "T", "O", "S", "_", "L", "E", "G", "_", "V", "A", "L", "I", "D", "O", "S">>
NR_LOCAL_VOTACAO == <<"N", "R", "_", "L", "O", "C", "A", "L", "_", "V", "O", "T", "A", "C", "A", "O">>
NM_LOCAL_VOTACAO == <<"N", "M", "_", "L", "O", "C", "A", "L", "_", "V", "O", "T", "A", "C", "A", "O">>
DS_LOCAL_VOTACAO_ENDERECO == <<"D", "S", "_", "L", "O", "C", "A", "L", "_", "V", "O", "T", "A", "C", "A", "O", "_", "E", "N", "D", "E", "R", "E", "C", "O">>

\* Columns of the TSE section layout that the pipeline never names.
NR_VOTAVEL == <<"N", "R", "_", "V", "O", "T", "A", "V", "E", "L">>
NM_VOTAVEL == <<"N", "M", "_", "V", "O", "T", "A", "V", "E", "L">>

\* Substrings searched in column names (ingestor.py:205-213).
SUB_CD_LOCAL_VOT == <<"C", "D", "_", "L", "O", "C", "A", "L", "_", "V", "O", "T">>
SUB_NR_LOCAL_VOT == <<"N", "R", "_", "L", "O", "C", "A", "L", "_", "V", "O", "T">>
SUB_NM_LOCAL_VOT == <<"N", "M", "_", "L", "O", "C", "A", "L", "_", "V", "O", "T">>
SUB_DS_LOCAL_VOT == <<"D", "S", "_", "L", "O", "C", "A", "L", "_", "V", "O", "T">>
SUB_ENDERECO == <<"E", "N", "D", "E", "R", "E", "C", "O">>
SUB_LOCAL_VOT == <<"L", "O", "C", "A", "L", "_", "V", "O", "T">>
SUB_LOC_VOT == <<"L", "O", "C", "_", "V", "O", "T">>

\* Markers searched in the upper-cased file name (ingestor.py:584-608).
MARCA_DETALHE == <<"D", "E", "T", "A", "L", "H", "E", "_", "V", "O", "T", "A", "C", "A", "O", "_", "S", "E", "C", "A", "O">>
MARCA_CANDIDATO == <<"C", "A", "N", "D", "I", "D", "A", "T", "O">>
MARCA_PARTIDO == <<"P", "A", "R", "T", "I", "D", "O">>
MARCA_MUNZONA == <<"M", "U", "N", "Z", "O", "N", "A">>
EXT_CSV == <<".", "c", "s", "v">>

\* The null markers of the TSE (ingestor.py:155).
SENT_NULO == <<"#", "N", "U", "L", "O">>
SENT_NE == <<"#", "N", "E">>

\* The alternatives of uf_pattern, in the order the regular expression tries them.
UF_ALTERNATIVAS ==
    << <<"B", "R", "A", "S", "I", "L">>,
       <<"B", "R">>,
       <<"A", "C">>,
       <<"A", "L">>,
       <<"A", "P">>,
       <<"A", "M">>,
       <<"B", "A">>,
       <<"C", "E">>,
       <<"D", "F">>,
       <<"E", "S">>,
       <<"G", "O">>,
       <<"M", "A">>,
       <<"M", "T">>,
       <<"M", "S">>,
       <<"M", "G">>,
       <<"P", "A">>,
       <<"P", "B">>,
       <<"P", "R">>,
       <<"P", "E">>,
       <<"P", "I">>,
       <<"R", "J">>,
       <<"R", "N">>,
       <<"R", "S">>,
       <<"R", "O">>,
       <<"R", "R">>,
       <<"S", "C">>,
       <<"S", "P">>,
       <<"S", "E">>,
       <<"T", "O">> >>

\* The values pandas.read_csv reads as missing by default (those the
\* alphabet can spell); the empty field is the first.
VALORES_NA ==
    { <<>>, <<"#", "N", "A">>, <<"-", "N", "a", "N">>, <<"-", "n", "a", "n">>,
      <<"N", "A">>, <<"N", "U", "L", "L">>, <<"N", "a", "N">>,
      <<"N", "o", "n", "e">>, <<"n", "a", "n">>, <<"n", "u", "l", "l">> }

EstaEm(seq, c) == \E i \in 1..Len(seq) : seq[i] = c

Minimo(S) == CHOOSE x \in S : \A y \in S : x <= y

\* The first position of c in seq
Pos(seq, c) == Minimo({i \in 1..Len(seq) : seq[i] = c})

\* ord(c), up to the characters the alphabet leaves out
CodePoint == [c \in {Alfabeto[i] : i \in 1..Len(Alfabeto)} |-> Pos(Alfabeto, c)]

Ord(c) == CodePoint[c]

UpperTab ==
    [c \in {Alfabeto[i] : i \in 1..Len(Alfabeto)} |->
        IF EstaEm(Minusculas, c) THEN Maiusculas[Pos(Minusculas, c)] ELSE c]

LowerTab ==
    [c \in {Alfabeto[i] : i \in 1..Len(Alfabeto)} |->
        IF EstaEm(Maiusculas, c) THEN Minusculas[Pos(Maiusculas, c)] ELSE c]

upper_char(c) == UpperTab[c]

\* str.upper()
upper(s) == [i \in 1..Len(s) |-> upper_char(s[i])]

\* sub in s
Contem(s, sub) == \E i \in 0..(Len(s) - Len(sub)) : SubSeq(s, i + 1, i + Len(sub)) = sub

EhDigito(c) == EstaEm(Digitos, c)

\* a < b for str (code-point order), the order sorted() uses on the paths of one directory
RECURSIVE MenorDesde(_, _, _)
MenorDesde(a, b, k) ==
    IF k > Len(b) THEN FALSE
    ELSE IF k > Len(a) THEN TRUE
    ELSE IF a[k] = b[k] THEN MenorDesde(a, b, k + 1)
    ELSE Ord(a[k]) < Ord(b[k])

Menor(a, b) == MenorDesde(a, b, 1)

RECURSIVE sorted(_)
sorted(S) ==
    IF S = {} THEN <<>>
    ELSE LET m == CHOOSE x \in S : \A y \in S \ {x} : Menor(x, y)
         IN  <<m>> \o sorted(S \ {m})

RECURSIVE ValorDecimal(_)
ValorDecimal(ds) ==
    IF ds = <<>> THEN 0
    ELSE ValorDecimal(SubSeq(ds, 1, Len(ds) - 1)) * 10 + (Pos(Digitos, ds[Len(ds)]) - 1)

----------------------------------------------------------------------------
(* Cells and frames.  A file is [leitura, name, columns, rows]: whether   *)
(* it can be read at all, its name, its header and its data lines, each    *)
(* line a sequence of cells.  A frame is [columns, rows] after reading.    *)

\* pd.to_numeric(..., errors="coerce") on one cell: <<>> is NaN, <<n>> the
\* number n.  The cells of the model spell integers only (no '.', no
\* exponent, no blanks, no '+').
to_numeric(cel) ==
    IF cel = NULO \/ cel = <<>> THEN <<>>
    ELSE LET neg  == cel[1] = "-"
             corpo == IF neg THEN Tail(cel) ELSE cel
         IN  IF corpo # <<>> /\ \A i \in 1..Len(corpo) : EhDigito(corpo[i])
             THEN <<IF neg THEN 0 - ValorDecimal(corpo) ELSE ValorDecimal(corpo)>>
             ELSE <<>>

\* .fillna(0).astype(int)
fillna0_int(num) == IF num = <<>> THEN 0 ELSE num[1]

\* df.replace({"#NULO": None, "#NE": None}) on one cell
replace_sentinelas(cel) == IF cel = SENT_NULO \/ cel = SENT_NE THEN NULO ELSE cel

\* The frame pd.read_csv(path, sep=";", dtype=str) builds from the data
\* lines it accepts: every field is text, the default missing values become
\* NaN, a line shorter than the header is filled with NaN.
read_csv(arq, linhas) ==
    [columns |-> arq.columns,
     rows    |-> [r \in 1..Len(linhas) |->
                    [c \in 1..Len(arq.columns) |->
                        IF c > Len(linhas[r]) \/ linhas[r][c] \in VALORES_NA
                        THEN NULO ELSE linhas[r][c]]]]

\* The first pd.read_csv of ler_csv_flex (C engine): "ok" or what it raises.
\* A data line with more fields than the header is a tokenizing error; a
\* file with no header line has no columns to parse (EmptyDataError, which
\* is no ParserError); a file marked leitura = "falha" cannot be read by
\* either engine (the tokenizer runs out of memory, the medium fails).  The
\* first data line of a file is never longer than its header: pandas would
\* read its leading fields as an index.
read_csv_estrito(arq) ==
    IF arq.leitura = "falha" THEN "ParserError"
    ELSE IF arq.columns = <<>> THEN "EmptyDataError"
    ELSE IF \E r \in 1..Len(arq.rows) : Len(arq.rows[r]) > Len(arq.columns) THEN "ParserError"
    ELSE "ok"

\* The second pd.read_csv (engine="python", on_bad_lines="skip")
read_csv_tolerante(arq) == IF arq.leitura = "falha" THEN "Exception" ELSE "ok"

\* on_bad_lines="skip": the lines with too many fields are left out
LinhasBoas(arq) == SelectSeq(arq.rows, LAMBDA l : Len(l) <= Len(arq.columns))

ler_csv_flex_sem_segunda_leitura(arq) ==
    IF read_csv_estrito(arq) = "ok"
    THEN [st |-> "ok", tentativas |-> 1, df |-> read_csv(arq, arq.rows)]
    ELSE [st |-> "none", tentativas |-> 1, df |-> read_csv(arq, <<>>)]

\* ler_csv_flex: st is "ok" with the frame df, or "none" when it returns
\* None; tentativas counts the pd.read_csv calls it made
ler_csv_flex(arq) ==
    IF read_csv_estrito(arq) = "ok"
    THEN [st |-> "ok", tentativas |-> 1, df |-> read_csv(arq, arq.rows)]
    ELSE IF read_csv_estrito(arq) # "ParserError"
    THEN [st |-> "none", tentativas |-> 1, df |-> read_csv(arq, <<>>)]
    ELSE IF read_csv_tolerante(arq) = "ok"
    THEN [st |-> "ok", tentativas |-> 2, df |-> read_csv(arq, LinhasBoas(arq))]
    ELSE [st |-> "none", tentativas |-> 2, df |-> read_csv(arq, <<>>)]

\* df = df.replace({"#NULO": None, "#NE": None})
limpar_marcadores(df) ==
    [columns |-> df.columns,
     rows    |-> [r \in 1..Len(df.rows) |->
                    [c \in 1..Len(df.rows[r]) |-> replace_sentinelas(df.rows[r][c])]]]

TemColuna(df, c) == EstaEm(df.columns, c)

\* df[c] if c in df.columns else None, at line r
Cel(df, r, c) == IF TemColuna(df, c) THEN df.rows[r][Pos(df.columns, c)] ELSE NULO

\* df.get(c, pd.Series([None])).iloc[0]; raises IndexError on a frame that
\* has the column and no line
PrimeiroValor(df, c) == IF TemColuna(df, c) THEN df.rows[1][Pos(df.columns, c)] ELSE NULO

PrimeiroValorLevanta(df, c) == TemColuna(df, c) /\ df.rows = <<>>

----------------------------------------------------------------------------
(* Column resolver *)

\* The loop of detectar_colunas over the vote-count aliases.
VOTE_ALIASES == <<QT_VOTOS_NOMINAIS, QT_VOTOS_NOMINAIS_VALIDOS, QT_VOTOS, QT_VOTOS_VALIDOS>>

VOTE_ALIASES_TROCADOS == <<QT_VOTOS, QT_VOTOS_NOMINAIS, QT_VOTOS_NOMINAIS_VALIDOS, QT_VOTOS_VALIDOS>>

vote_col_trocado(columns) ==
    LET S == {i \in 1..Len(VOTE_ALIASES_TROCADOS) : EstaEm(columns, VOTE_ALIASES_TROCADOS[i])}
    IN  IF S = {} THEN NULO ELSE VOTE_ALIASES_TROCADOS[Minimo(S)]

vote_col(columns) ==
    LET S == {i \in 1..Len(VOTE_ALIASES) : EstaEm(columns, VOTE_ALIASES[i])}
    IN  IF S = {} THEN NULO ELSE VOTE_ALIASES[Minimo(S)]

cand_col(columns) ==
    IF EstaEm(columns, NM_CANDIDATO) THEN NM_CANDIDATO
    ELSE IF EstaEm(columns, NM_URNA_CANDIDATO) THEN NM_URNA_CANDIDATO
    ELSE NULO

party_col(columns) ==
    IF EstaEm(columns, SG_PARTIDO) THEN SG_PARTIDO
    ELSE IF EstaEm(columns, NM_PARTIDO) THEN NM_PARTIDO
    ELSE NULO

\* detectar_colunas: <<>> is None, <<m>> the dict m (NULO for a None entry)
detectar_colunas(columns) ==
    IF vote_col(columns) = NULO THEN <<>>
    ELSE << [vote  |-> vote_col(columns),
             cand  |-> cand_col(columns),
             party |-> party_col(columns),
             zona  |-> IF EstaEm(columns, NR_ZONA) THEN NR_ZONA ELSE NULO,
             secao |-> IF EstaEm(columns, NR_SECAO) THEN NR_SECAO ELSE NULO] >>

----------------------------------------------------------------------------
(* File-name parsing *)

\* re.search(r"(19|20)\d{2}", nome): the start of every match
AnoEm(nome) ==
    {i \in 1..(Len(nome) - 3) :
        /\ \/ (nome[i] = "1" /\ nome[i + 1] = "9")
           \/ (nome[i] = "2" /\ nome[i + 1] = "0")
        /\ EhDigito(nome[i + 2])
        /\ EhDigito(nome[i + 3])}

UfEm_sem_delimitador(nome) ==
    {ik \in (1..Len(nome)) \X (1..Len(UF_ALTERNATIVAS)) :
        LET i   == ik[1]
            alt == UF_ALTERNATIVAS[ik[2]]
            fim == i + Len(alt)
        IN  /\ nome[i] = "_"
            /\ fim <= Len(nome)
            /\ SubSeq(nome, i + 1, fim) = alt}

\* re.search(uf_pattern, nome): <<i, k>> when alternative k matches after
\* the '_' at i and is followed by '_', '.' or the end of the name
UfEm(nome) ==
    {ik \in (1..Len(nome)) \X (1..Len(UF_ALTERNATIVAS)) :
        LET i   == ik[1]
            alt == UF_ALTERNATIVAS[ik[2]]
            fim == i + Len(alt)
        IN  /\ nome[i] = "_"
            /\ fim <= Len(nome)
            /\ SubSeq(nome, i + 1, fim) = alt
            /\ (fim = Len(nome) \/ nome[fim + 1] = "_" \/ nome[fim + 1] = ".")}

extrair_ano_uf_do_arquivo(name) ==
    LET nome == upper(name)
        A    == AnoEm(nome)
        U    == UfEm(nome)
        i0   == Minimo({ik[1] : ik \in U})
        k0   == Minimo({ik[2] : ik \in {x \in U : x[1] = i0}})
    IN  [ano |-> IF A = {} THEN NULO ELSE SubSeq(nome, Minimo(A), Minimo(A) + 3),
         uf  |-> IF U = {} THEN NULO ELSE UF_ALTERNATIVAS[k0]]

\* ano = ano or df.get("ANO_ELEICAO", pd.Series([None])).iloc[0], and the same for uf
AnoDe(name, df) ==
    IF extrair_ano_uf_do_arquivo(name).ano # NULO
    THEN extrair_ano_uf_do_arquivo(name).ano ELSE PrimeiroValor(df, ANO_ELEICAO)

UfDe(name, df) ==
    IF extrair_ano_uf_do_arquivo(name).uf # NULO
    THEN extrair_ano_uf_do_arquivo(name).uf ELSE PrimeiroValor(df, SG_UF)

AnoUfLevanta(name, df) ==
    \/ extrair_ano_uf_do_arquivo(name).ano = NULO /\ PrimeiroValorLevanta(df, ANO_ELEICAO)
    \/ extrair_ano_uf_do_arquivo(name).uf = NULO /\ PrimeiroValorLevanta(df, SG_UF)

----------------------------------------------------------------------------
(* Per-file processing.  Each processar_* yields [st, rows]: st is "ok"    *)
(* with the lines of the returned frame, "none" when the function returns  *)
(* None, "raise" when it lets an exception out.                            *)

SemFrame == [st |-> "none", rows |-> <<>>]
Excecao == [st |-> "raise", rows |-> <<>>]

EhCdLocal(up) == Contem(up, SUB_CD_LOCAL_VOT) \/ Contem(up, SUB_NR_LOCAL_VOT)

EhNmLocal(up) == Contem(up, SUB_NM_LOCAL_VOT) \/ Contem(up, SUB_DS_LOCAL_VOT)

EhEnderecoLocal(up) ==
    Contem(up, SUB_ENDERECO) /\ (Contem(up, SUB_LOCAL_VOT) \/ Contem(up, SUB_LOC_VOT))

\* The loop over df.columns (ingestor.py:202-214): the index of the first
\* column whose upper-cased name qualifies as papel, 0 when none does
PrimeiraColuna(columns, papel) ==
    LET S == {i \in 1..Len(columns) :
                 CASE papel = "cd_local" -> EhCdLocal(upper(columns[i]))
                   [] papel = "nm_local" -> EhNmLocal(upper(columns[i]))
                   [] OTHER              -> EhEnderecoLocal(upper(columns[i]))}
    IN  IF S = {} THEN 0 ELSE Minimo(S)

CelIdx(df, r, i) == IF i = 0 THEN NULO ELSE df.rows[r][i]

\* Converte votos para int (ingestor.py:179)
votos_int(cel) == fillna0_int(to_numeric(cel))

\* Line r of the frame built at ingestor.py:216-237
linha_votos(name, df, cols, ano, uf, r) ==
        [arquivo_origem            |-> name,
         ano                       |-> ano,
         uf                        |-> uf,
         nr_turno                  |-> Cel(df, r, NR_TURNO),
         cd_municipio              |-> Cel(df, r, CD_MUNICIPIO),
         nm_municipio              |-> Cel(df, r, NM_MUNICIPIO),
         cd_cargo                  |-> Cel(df, r, CD_CARGO),
         ds_cargo                  |-> Cel(df, r, DS_CARGO),
         nm_candidato              |-> IF cols.cand # NULO THEN Cel(df, r, cols.cand) ELSE NULO,
         nr_candidato              |-> Cel(df, r, NR_CANDIDATO),
         sg_partido                |-> IF cols.party # NULO THEN Cel(df, r, cols.party) ELSE NULO,
         nr_zona                   |-> IF cols.zona # NULO THEN Cel(df, r, cols.zona) ELSE NULO,
         nr_secao                  |-> IF cols.secao # NULO THEN Cel(df, r, cols.secao) ELSE NULO,
         cd_local_votacao          |-> CelIdx(df, r, PrimeiraColuna(df.columns, "cd_local")),
         nm_local_votacao          |-> CelIdx(df, r, PrimeiraColuna(df.columns, "nm_local")),
         ds_local_votacao_endereco |-> CelIdx(df, r, PrimeiraColuna(df.columns, "ds_local_endereco")),
         ds_sit_tot_turno          |-> Cel(df, r, DS_SIT_TOT_TURNO),
         votos                     |-> votos_int(Cel(df, r, cols.vote))]

linhas_votos_so_com_candidato(name, df, cols, ano, uf) ==
    SelectSeq([r \in 1..Len(df.rows) |-> linha_votos(name, df, cols, ano, uf, r)],
              LAMBDA l : l.nr_candidato # NULO)

\* result = pd.DataFrame(base_cols): one line per line read, none removed
linhas_votos(name, df, cols, ano, uf) ==
    [r \in 1..Len(df.rows) |-> linha_votos(name, df, cols, ano, uf, r)]

processar_arquivo_votos_levanta(arq) ==
    LET df   == limpar_marcadores(ler_csv_flex(arq).df)
        cols == detectar_colunas(df.columns)
    IN  IF ler_csv_flex(arq).st = "none" THEN SemFrame
        ELSE IF cols = <<>> THEN Excecao
        ELSE IF AnoUfLevanta(arq.name, df) THEN Excecao
        ELSE [st |-> "ok", rows |-> linhas_votos(arq.name, df, cols[1], AnoDe(arq.name, df),
                                                UfDe(arq.name, df))]

processar_arquivo_votos(arq) ==
    LET df   == limpar_marcadores(ler_csv_flex(arq).df)
        cols == detectar_colunas(df.columns)
    IN  IF ler_csv_flex(arq).st = "none" THEN SemFrame
        ELSE IF cols = <<>> THEN SemFrame
        ELSE IF AnoUfLevanta(arq.name, df) THEN Excecao
        ELSE [st |-> "ok", rows |-> linhas_votos(arq.name, df, cols[1], AnoDe(arq.name, df),
                                                UfDe(arq.name, df))]

\* pd.DataFrame(base_cols) raises ValueError when every value is a scalar,
\* that is when the file has none of the columns the function reads.
SoEscalares(df, lidas) == \A c \in lidas : ~TemColuna(df, c)

linhas_detalhe(name, df, ano, uf) ==
    [r \in 1..Len(df.rows) |->
        [arquivo_origem            |-> name,
         ano                       |-> ano,
         uf                        |-> uf,
         cd_municipio              |-> Cel(df, r, CD_MUNICIPIO),
         nm_municipio              |-> Cel(df, r, NM_MUNICIPIO),
         nr_zona                   |-> Cel(df, r, NR_ZONA),
         nr_secao                  |-> Cel(df, r, NR_SECAO),
         nr_local_votacao          |-> Cel(df, r, NR_LOCAL_VOTACAO),
         nm_local_votacao          |-> Cel(df, r, NM_LOCAL_VOTACAO),
         ds_local_votacao_endereco |-> Cel(df, r, DS_LOCAL_VOTACAO_ENDERECO)]]

processar_detalhe_secao(arq) ==
    LET df == limpar_marcadores(ler_csv_flex(arq).df)
    IN  IF ler_csv_flex(arq).st = "none" THEN SemFrame
        ELSE IF AnoUfLevanta(arq.name, df) THEN Excecao
        ELSE IF SoEscalares(df, {CD_MUNICIPIO, NM_MUNICIPIO, NR_ZONA, NR_SECAO,
                                 NR_LOCAL_VOTACAO, NM_LOCAL_VOTACAO,
                                 DS_LOCAL_VOTACAO_ENDERECO}) THEN Excecao
        ELSE [st |-> "ok", rows |-> linhas_detalhe(arq.name, df, AnoDe(arq.name, df),
                                                  UfDe(arq.name, df))]

Desmarcar(marcadas) == [i \in 1..Len(marcadas) |-> marcadas[i].l]

drop_duplicates_ultimo(linhas, chaves) ==
    Desmarcar(SelectSeq([i \in 1..Len(linhas) |->
                            [l |-> linhas[i],
                             dup |-> \E j \in (i + 1)..Len(linhas) : chaves[j] = chaves[i]]],
                        LAMBDA x : ~x.dup))

\* result.drop_duplicates(subset=subset), chaves[i] being the subset columns
\* of line i: pandas keeps the first line of each key (keep="first")
drop_duplicates(linhas, chaves) ==
    Desmarcar(SelectSeq([i \in 1..Len(linhas) |->
                            [l |-> linhas[i],
                             dup |-> \E j \in 1..(i - 1) : chaves[j] = chaves[i]]],
                        LAMBDA x : ~x.dup))


\* subset = ["ano", "uf", "cd_cargo", "nr_turno", "nr_candidato"]
ChaveCandidato(l) == <<l.ano, l.uf, l.cd_cargo, l.nr_turno, l.nr_candidato>>

ChavesCandidato(linhas) == [i \in 1..Len(linhas) |-> ChaveCandidato(linhas[i])]

\* subset = ["ano", "uf", "cd_cargo", "nr_turno", "cd_municipio", "sg_partido"]
ChavePartido(l) == <<l.ano, l.uf, l.cd_cargo, l.nr_turno, l.cd_municipio, l.sg_partido>>

ChavesPartido(linhas) == [i \in 1..Len(linhas) |-> ChavePartido(linhas[i])]

linhas_candidatos(name, df, ano, uf) ==
    [r \in 1..Len(df.rows) |->
        [arquivo_origem          |-> name,
         ano                     |-> ano,
         uf                      |-> uf,
         cd_cargo                |-> Cel(df, r, CD_CARGO),
         nr_turno                |-> Cel(df, r, NR_TURNO),
         cd_municipio            |-> Cel(df, r, CD_MUNICIPIO),
         nm_municipio            |-> Cel(df, r, NM_MUNICIPIO),
         nr_candidato            |-> Cel(df, r, NR_CANDIDATO),
         nm_candidato            |-> IF TemColuna(df, NM_URNA_CANDIDATO)
                                     THEN Cel(df, r, NM_URNA_CANDIDATO)
                                     ELSE Cel(df, r, NM_CANDIDATO),
         sg_partido              |-> Cel(df, r, SG_PARTIDO),
         nm_partido              |-> Cel(df, r, NM_PARTIDO),
         ds_sit_tot_turno        |-> Cel(df, r, DS_SIT_TOT_TURNO),
         ds_situacao_candidatura |-> Cel(df, r, DS_SITUACAO_CANDIDATURA)]]

processar_candidatos_meta(arq) ==
    LET df == limpar_marcadores(ler_csv_flex(arq).df)
    IN  IF ler_csv_flex(arq).st = "none" THEN SemFrame
        ELSE IF AnoUfLevanta(arq.name, df) THEN Excecao
        ELSE IF SoEscalares(df, {CD_CARGO, NR_TURNO, CD_MUNICIPIO, NM_MUNICIPIO,
                                 NR_CANDIDATO, NM_URNA_CANDIDATO, NM_CANDIDATO,
                                 SG_PARTIDO, NM_PARTIDO, DS_SIT_TOT_TURNO,
                                 DS_SITUACAO_CANDIDATURA}) THEN Excecao
        ELSE [st   |-> "ok",
              rows |-> LET result == linhas_candidatos(arq.name, df, AnoDe(arq.name, df),
                                                       UfDe(arq.name, df))
                       IN  drop_duplicates(result, ChavesCandidato(result))]

\* pd.to_numeric(df["QT_TOTAL_VOTOS_LEG_VALIDOS"], errors="coerce"), or None
\* without the column: <<>> is NULL in the table, <<n>> the number n
qt_leg(df, r) ==
    IF TemColuna(df, QT_TOTAL_VOTOS_LEG_VALIDOS)
    THEN to_numeric(Cel(df, r, QT_TOTAL_VOTOS_LEG_VALIDOS)) ELSE <<>>

linhas_partidos(name, df, ano, uf) ==
    [r \in 1..Len(df.rows) |->
        [arquivo_origem             |-> name,
         ano                        |-> ano,
         uf                         |-> uf,
         cd_cargo                   |-> Cel(df, r, CD_CARGO),
         nr_turno                   |-> Cel(df, r, NR_TURNO),
         cd_municipio               |-> Cel(df, r, CD_MUNICIPIO),
         nm_municipio               |-> Cel(df, r, NM_MUNICIPIO),
         sg_partido                 |-> Cel(df, r, SG_PARTIDO),
         nm_partido                 |-> Cel(df, r, NM_PARTIDO),
         ds_sit_tot_turno           |-> Cel(df, r, DS_SIT_TOT_TURNO),
         qt_total_votos_leg_validos |-> qt_leg(df, r)]]

processar_partidos_meta(arq) ==
    LET df == limpar_marcadores(ler_csv_flex(arq).df)
    IN  IF ler_csv_flex(arq).st = "none" THEN SemFrame
        ELSE IF AnoUfLevanta(arq.name, df) THEN Excecao
        ELSE IF SoEscalares(df, {CD_CARGO, NR_TURNO, CD_MUNICIPIO, NM_MUNICIPIO,
                                 SG_PARTIDO, NM_PARTIDO, DS_SIT_TOT_TURNO,
                                 QT_TOTAL_VOTOS_LEG_VALIDOS}) THEN Excecao
        ELSE [st   |-> "ok",
              rows |-> LET result == linhas_partidos(arq.name, df, AnoDe(arq.name, df),
                                                     UfDe(arq.name, df))
                       IN  drop_duplicates(result, ChavesPartido(result))]

----------------------------------------------------------------------------
(* Input files.  The files an operator can upload are the scenario files *)
(* of the pipeline: a section-vote export, split candidate exports, a     *)
(* party export and a section-detail export, some under the same name     *)
(* with other content (a corrected export uploaded again).                *)

NOME_SECAO == <<"v", "o", "t", "a", "c", "a", "o", "_", "s", "e", "c", "a", "o", "_", "2", "0", "2", "4", "_", "S", "P", ".", "c", "s", "v">>
NOME_CAND_1 == <<"v", "o", "t", "a", "c", "a", "o", "_", "c", "a", "n", "d", "i", "d", "a", "t", "o", "_", "m", "u", "n", "z", "o", "n", "a", "_", "2", "0", "2", "2", "_", "S", "P", "_", "1", ".", "c", "s", "v">>
NOME_CAND_2 == <<"v", "o", "t", "a", "c", "a", "o", "_", "c", "a", "n", "d", "i", "d", "a", "t", "o", "_", "m", "u", "n", "z", "o", "n", "a", "_", "2", "0", "2", "2", "_", "S", "P", "_", "2", ".", "c", "s", "v">>
NOME_PART == <<"v", "o", "t", "a", "c", "a", "o", "_", "p", "a", "r", "t", "i", "d", "o", "_", "m", "u", "n", "z", "o", "n", "a", "_", "2", "0", "2", "2", "_", "S", "P", ".", "c", "s", "v">>
NOME_DETALHE == <<"d", "e", "t", "a", "l", "h", "e", "_", "v", "o", "t", "a", "c", "a", "o", "_", "s", "e", "c", "a", "o", "_", "2", "0", "2", "2", "_", "S", "P", ".", "c", "s", "v">>

T_SUPLENTE == <<"S", "U", "P", "L", "E", "N", "T", "E">>
T_ELEITO == <<"E", "L", "E", "I", "T", "O">>
T_Alice == <<"A", "l", "i", "c", "e">>
T_Bob == <<"B", "o", "b">>
T_PT == <<"P", "T">>
T_MDB == <<"M", "D", "B">>
T_2024 == <<"2", "0", "2", "4">>
T_2022 == <<"2", "0", "2", "2">>
T_SP == <<"S", "P">>
T_Escola == <<"E", "s", "c", "o", "l", "a">>
T_Rua == <<"R", "u", "a">>
N_1 == <<"1">>
N_10 == <<"1", "0">>
N_11 == <<"1", "1">>
N_13 == <<"1", "3">>
N_45 == <<"4", "5">>
N_46 == <<"4", "6">>
N_100 == <<"1", "0", "0">>
N_200 == <<"2", "0", "0">>
N_50 == <<"5", "0">>
N_30 == <<"3", "0">>
N_20 == <<"2", "0">>
N_7 == <<"7">>
N_NEG5 == <<"-", "5">>
N_x5 == <<"x", "5">>
N_71072 == <<"7", "1", "0", "7", "2">>

\* votacao_secao_2024_SP.csv: ANO_ELEICAO;SG_UF;NR_ZONA;NR_SECAO;NR_VOTAVEL;NM_VOTAVEL;QT_VOTOS
ArqSecao ==
    [leitura |-> "ok",
     name    |-> NOME_SECAO,
     columns |-> <<ANO_ELEICAO, SG_UF, NR_ZONA, NR_SECAO, NR_VOTAVEL, NM_VOTAVEL, QT_VOTOS>>,
     rows    |-> << <<T_2024, T_SP, N_1, N_10, N_100, T_Alice, N_50>>,
                    <<T_2024, T_SP, N_1, N_10, N_200, T_Bob, N_30>>,
                    <<T_2024, T_SP, N_1, N_11, N_100, T_Alice, N_20>> >>]

\* The same name with the candidate layout, a negative count, a null marker
\* and a line without candidate.
ArqSecaoCand ==
    [leitura |-> "ok",
     name    |-> NOME_SECAO,
     columns |-> <<NR_TURNO, CD_CARGO, NR_CANDIDATO, NM_CANDIDATO, SG_PARTIDO, QT_VOTOS_NOMINAIS>>,
     rows    |-> << <<N_1, N_13, N_45, T_Alice, T_PT, N_NEG5>>,
                    <<N_1, N_13, <<>>, <<>>, <<>>, SENT_NULO>> >>]

ArqCand1 ==
    [leitura |-> "ok",
     name    |-> NOME_CAND_1,
     columns |-> <<CD_CARGO, NR_TURNO, NR_CANDIDATO, NM_URNA_CANDIDATO, SG_PARTIDO, DS_SIT_TOT_TURNO>>,
     rows    |-> << <<N_13, N_1, N_45, T_Alice, T_PT, T_SUPLENTE>>,
                    <<N_13, N_1, N_45, T_Alice, T_PT, T_ELEITO>> >>]

ArqCand1Outro ==
    [leitura |-> "ok",
     name    |-> NOME_CAND_1,
     columns |-> <<CD_CARGO, NR_TURNO, NR_CANDIDATO, NM_URNA_CANDIDATO, SG_PARTIDO, DS_SIT_TOT_TURNO>>,
     rows    |-> << <<N_13, N_1, N_46, T_Bob, T_MDB, T_ELEITO>> >>]

ArqCand2 ==
    [leitura |-> "ok",
     name    |-> NOME_CAND_2,
     columns |-> <<CD_CARGO, NR_TURNO, NR_CANDIDATO, NM_URNA_CANDIDATO, SG_PARTIDO, DS_SIT_TOT_TURNO>>,
     rows    |-> << <<N_13, N_1, N_45, T_Alice, T_PT, T_ELEITO>> >>]

ArqPart ==
    [leitura |-> "ok",
     name    |-> NOME_PART,
     columns |-> <<CD_CARGO, NR_TURNO, CD_MUNICIPIO, SG_PARTIDO, QT_TOTAL_VOTOS_LEG_VALIDOS>>,
     rows    |-> << <<N_13, N_1, N_71072, T_PT, N_7>>,
                    <<N_13, N_1, N_71072, T_MDB, SENT_NULO>> >>]

ArqDetalhe ==
    [leitura |-> "ok",
     name    |-> NOME_DETALHE,
     columns |-> <<NR_ZONA, NR_SECAO, NR_LOCAL_VOTACAO, NM_LOCAL_VOTACAO, DS_LOCAL_VOTACAO_ENDERECO>>,
     rows    |-> << <<N_1, N_10, N_7, T_Escola, T_Rua>> >>]

Universo == {ArqSecao, ArqSecaoCand, ArqCand1, ArqCand1Outro, ArqCand2, ArqPart, ArqDetalhe}

\* Files of a batch that are not all loaded.
NOME_AMOSTRA == <<"a", "m", "o", "s", "t", "r", "a", "_", "2", "0", "2", "2", "_", "S", "P", ".", "c", "s", "v">>
NOME_BOLETIM == <<"b", "o", "l", "e", "t", "i", "m", "_", "2", "0", "2", "2", "_", "S", "P", ".", "c", "s", "v">>
NOME_CORROMPIDO == <<"c", "o", "r", "r", "o", "m", "p", "i", "d", "o", "_", "2", "0", "2", "2", "_", "S", "P", ".", "c", "s", "v">>
NOME_VAZIO == <<"v", "a", "z", "i", "o", "_", "2", "0", "2", "2", "_", "S", "P", ".", "c", "s", "v">>

\* amostra_2022_SP.csv: a section file whose second data line has a field
\* too many
ArqLinhaRuim ==
    [leitura |-> "ok",
     name    |-> NOME_AMOSTRA,
     columns |-> <<NR_ZONA, NR_SECAO, NR_VOTAVEL, QT_VOTOS>>,
     rows    |-> << <<N_1, N_10, N_45, N_50>>,
                    <<N_1, N_11, N_45, N_30, N_7>> >>]

\* boletim_2022_SP.csv: no marker in the name, no vote-count column
ArqSemTipo ==
    [leitura |-> "ok",
     name    |-> NOME_BOLETIM,
     columns |-> <<NR_ZONA, NR_SECAO, NM_LOCAL_VOTACAO>>,
     rows    |-> << <<N_1, N_10, T_Escola>> >>]

\* corrompido_2022_SP.csv: a section file that neither engine can read
ArqCorrompido ==
    [leitura |-> "falha",
     name    |-> NOME_CORROMPIDO,
     columns |-> <<NR_ZONA, NR_SECAO, NR_VOTAVEL, QT_VOTOS>>,
     rows    |-> << <<N_1, N_10, N_45, N_50>> >>]

\* vazio_2022_SP.csv: an empty file
ArqVazio == [leitura |-> "ok", name |-> NOME_VAZIO, columns |-> <<>>, rows |-> <<>>]

UniversoLote == {ArqLinhaRuim, ArqSemTipo, ArqCorrompido, ArqVazio, ArqSecao, ArqCand1}

\* VOTACAO_SECAO_2022_SP.CSV: a section file under an upper-case name, which
\* upload_csv accepts (main.py:260) and glob("*.csv") does not list
NOME_MAIUSCULAS == <<"V", "O", "T", "A", "C", "A", "O", "_", "S", "E", "C", "A", "O", "_", "2", "0", "2", "2", "_", "S", "P", ".", "C", "S", "V">>

ArqMaiusculas ==
    [leitura |-> "ok",
     name    |-> NOME_MAIUSCULAS,
     columns |-> <<ANO_ELEICAO, SG_UF, NR_ZONA, NR_SECAO, NR_VOTAVEL, NM_VOTAVEL, QT_VOTOS>>,
     rows    |-> << <<T_2022, T_SP, N_1, N_10, N_100, T_Alice, N_50>> >>]

UniversoServico == {ArqSecao, ArqCand1, ArqMaiusculas}

----------------------------------------------------------------------------
(* The database *)

Tabelas == {"votos", "locais_secao", "candidatos_meta", "partidos_meta"}

\* the table of models.ImportLog
IMPORT_LOG == "import_log"

TabelasDoBanco == Tabelas \cup {IMPORT_LOG}

SemTabela == [existe |-> FALSE, linhas |-> <<>>]

drop_tables_sem_efeito(d, ts) == d

\* DROP TABLE IF EXISTS t (its indexes go with it)
drop_tables(d, ts) == [t \in DOMAIN d |-> IF t \in ts THEN SemTabela ELSE d[t]]

drop_indices(ix, ts) == {i \in ix : i.tabela \notin ts}

\* if_exists="replace" in the place of "append"
to_sql_substitui(d, t, linhas) == [d EXCEPT ![t] = [existe |-> TRUE, linhas |-> linhas]]

\* df.to_sql(t, conn, if_exists="append", index=False)
to_sql(d, t, linhas) ==
    [d EXCEPT ![t] = [existe |-> TRUE, linhas |-> d[t].linhas \o linhas]]

\* CREATE INDEX IF NOT EXISTS nome ON tabela(colunas)
Indice(nome, tabela, colunas) == [nome |-> nome, tabela |-> tabela, colunas |-> colunas]

RECURSIVE create_index_all(_, _)
create_index_all(ix, novos) ==
    IF novos = <<>> THEN ix
    ELSE create_index_all(
             IF \E i \in ix : i.nome = Head(novos).nome THEN ix ELSE ix \cup {Head(novos)},
             Tail(novos))

INDICES_VOTOS ==
    << Indice("idx_votos_ano_uf", "votos", "ano, uf"),
       Indice("idx_votos_cargo", "votos", "ano, uf, cd_cargo"),
       Indice("idx_votos_municipio", "votos", "ano, uf, cd_municipio"),
       Indice("idx_votos_partido", "votos", "ano, uf, sg_partido"),
       Indice("idx_votos_mapa_locais", "votos",
              "ano, uf, cd_municipio, cd_cargo, nr_turno, nr_candidato, cd_local_votacao"),
       Indice("idx_votos_zona_secao", "votos", "ano, uf, cd_municipio, nr_zona, nr_secao") >>

INDICES_LOCAIS ==
    << Indice("idx_locais_ano_uf_mun_zona", "locais_secao", "ano, uf, cd_municipio, nr_zona") >>

INDICES_CANDIDATOS ==
    << Indice("idx_candidatos_meta_chave", "candidatos_meta",
              "ano, uf, cd_cargo, nr_turno, nr_candidato") >>

INDICES_PARTIDOS ==
    << Indice("idx_partidos_meta_chave", "partidos_meta",
              "ano, uf, cd_cargo, nr_turno, cd_municipio, sg_partido") >>

INDICES_MAIN ==
    << Indice("idx_votos_ano_uf_partido", "votos", "ano, uf, sg_partido"),
       Indice("idx_votos_candidato", "votos", "nm_candidato"),
       Indice("idx_votos_cargo", "votos", "cd_cargo, ds_cargo") >>

\* One try block: the first statement fails when the table is missing and
\* the OperationalError is caught.
create_guarded(d, ix, t, novos) == IF d[t].existe THEN create_index_all(ix, novos) ELSE ix

create_indexes(d, ix) == create_guarded(d, ix, "votos", INDICES_VOTOS)

create_locais_indexes(d, ix) == create_guarded(d, ix, "locais_secao", INDICES_LOCAIS)

create_meta_indexes(d, ix) ==
    create_guarded(d, create_guarded(d, ix, "candidatos_meta", INDICES_CANDIDATOS),
                   "partidos_meta", INDICES_PARTIDOS)

criar_indices(d, ix) == create_guarded(d, ix, "votos", INDICES_MAIN)

----------------------------------------------------------------------------
(* ingest_all *)

classificar_partido_primeiro(name) ==
    LET nome_upper == upper(name)
    IN  IF Contem(nome_upper, MARCA_DETALHE) THEN "locais_secao"
        ELSE IF Contem(nome_upper, MARCA_PARTIDO) /\ Contem(nome_upper, MARCA_MUNZONA)
             THEN "partidos_meta"
        ELSE IF Contem(nome_upper, MARCA_CANDIDATO) /\ Contem(nome_upper, MARCA_MUNZONA)
             THEN "candidatos_meta"
        ELSE "votos"

\* The classification of ingest_all on the upper-cased name, first match wins.
classificar(name) ==
    LET nome_upper == upper(name)
    IN  IF Contem(nome_upper, MARCA_DETALHE) THEN "locais_secao"
        ELSE IF Contem(nome_upper, MARCA_CANDIDATO) /\ Contem(nome_upper, MARCA_MUNZONA)
             THEN "candidatos_meta"
        ELSE IF Contem(nome_upper, MARCA_PARTIDO) /\ Contem(nome_upper, MARCA_MUNZONA)
             THEN "partidos_meta"
        ELSE "votos"

processar(arq) ==
    LET t == classificar(arq.name)
    IN  IF t = "locais_secao" THEN processar_detalhe_secao(arq)
        ELSE IF t = "candidatos_meta" THEN processar_candidatos_meta(arq)
        ELSE IF t = "partidos_meta" THEN processar_partidos_meta(arq)
        ELSE processar_arquivo_votos(arq)

\* classificar and processar on the files that can be on the volume,
\* evaluated once
classificar_no_volume ==
    [n \in {a.name : a \in Universo \cup UniversoLote \cup UniversoServico} |-> classificar(n)]

processar_no_volume == [a \in Universo \cup UniversoLote \cup UniversoServico |-> processar(a)]

EndsWith(s, suf) == Len(suf) <= Len(s) /\ SubSeq(s, Len(s) - Len(suf) + 1, Len(s)) = suf

lower_char(c) == LowerTab[c]

lower(s) == [i \in 1..Len(s) |-> lower_char(s[i])]

\* every file of the directory, whatever its extension
glob_todos(vol) == sorted({a.name : a \in vol})

\* sorted(DATA_DIR.glob("*.csv"))
glob_csv(vol) == sorted({a.name : a \in {b \in vol : EndsWith(b.name, EXT_CSV)}})

\* clear_table and the locals of ingest_all; up0, db0 and processados are
\* history: the uploads accepted and the tables when the call started, and
\* what each turn of the loop did
Parado ==
    [pc |-> "idle", chamador |-> "", clear_table |-> FALSE, arquivos |-> <<>>,
     total_votos |-> 0, total_locais |-> 0, total_candidatos_meta |-> 0,
     total_partidos_meta |-> 0, up0 |-> 0, db0 |-> <<>>, processados |-> <<>>]

\* History of a call that ended: its argument, how it ended, the uploads
\* accepted when it started and when it ended, the tables it found, the
\* tables and indexes it left, the lines it counted as inserted and the
\* turns of its loop.
Encerrada(e, st, up1, d, ix) ==
    [clear_table |-> e.clear_table, st |-> st, up0 |-> e.up0, up1 |-> up1,
     db0 |-> e.db0, db |-> d, indices |-> ix,
     inseridas |-> [votos           |-> e.total_votos,
                    locais_secao    |-> e.total_locais,
                    candidatos_meta |-> e.total_candidatos_meta,
                    partidos_meta   |-> e.total_partidos_meta],
     processados |-> e.processados]

SemResposta == [st |-> "nenhuma", registros_votos |-> 0]

\* A request served: its number, its endpoint, how it ended, whether a
\* reload was in progress, whether that reload had found a table votos,
\* and the count it read.
Pedido(n, de, st, em_recarga, havia_votos, registros) ==
    [n |-> n, de |-> de, st |-> st, em_recarga |-> em_recarga,
     havia_votos |-> havia_votos, registros |-> registros]

SemPedido == Pedido(0, "", "nenhum", FALSE, FALSE, 0)

\* tables ingest_all drops when clear_table is set
TABELAS_LIMPAS_SO_DERIVADAS == {"votos", "locais_secao"}

TABELAS_LIMPAS == {"votos", "locais_secao", "candidatos_meta", "partidos_meta"}

retorno_soma_de_tudo(e) ==
    e.total_votos + e.total_locais + e.total_candidatos_meta + e.total_partidos_meta

\* return total_votos
retorno(e) == e.total_votos

\* ingest_all up to the listing of the files: connect, drop, list.  e is the
\* call before the step and eprox the call after it.  The database file is
\* in the directory of the volume: without the directory sqlite3.connect
\* raises (unable to open database file), before the test of the directory.
IngestInicioEm(e, eprox, clear_table, chamador) ==
    /\ e.pc = "idle"
    /\ nExec < MaxExec
    /\ nExec' = nExec + 1
    /\ db' = IF clear_table /\ pasta THEN drop_tables(db, TABELAS_LIMPAS) ELSE db
    /\ indices' = IF clear_table /\ pasta THEN drop_indices(indices, TABELAS_LIMPAS) ELSE indices
    /\ LET e0 == [Parado EXCEPT !.chamador = chamador, !.clear_table = clear_table,
                                 !.up0 = nUploads, !.db0 = db]
       IN  IF ~pasta
           THEN /\ eprox = Parado
                /\ resposta' = [st |-> "erro", registros_votos |-> 0]
                /\ historia' = Append(historia, Encerrada(e0, "erro", nUploads, db', indices'))
           ELSE IF glob_csv(volume) = <<>>
           THEN /\ historia' = Append(historia, Encerrada(e0, "ok", nUploads, db', indices'))
                /\ IF chamador = "reload_dados"
                   THEN /\ eprox = [e0 EXCEPT !.pc = "criar_indices"]
                        /\ UNCHANGED resposta
                   ELSE /\ eprox = Parado
                        /\ resposta' = [st |-> "ok", registros_votos |-> retorno(e0)]
           ELSE /\ eprox = [e0 EXCEPT !.pc = "arquivos", !.arquivos = glob_csv(volume)]
                /\ UNCHANGED <<resposta, historia>>
    /\ UNCHANGED <<volume, sem_espaco, nUploads, entrada, saida>>

IngestInicio(clear_table, chamador) ==
    IngestInicioEm(exec, exec', clear_table, chamador) /\ UNCHANGED <<outra, pedido, pasta>>

\* POST /reload, first step: ingest_all(clear_table=True).  A request is
\* served by the application, which created the directory when it started.
reload_dados == pasta /\ IngestInicio(TRUE, "reload_dados")

\* ingest_all(clear_table) called as a function
ingest_all(clear_table) == IngestInicio(clear_table, "ingest_all")

Somar(e, t, n) ==
    IF t = "votos" THEN [e EXCEPT !.total_votos = @ + n]
    ELSE IF t = "locais_secao" THEN [e EXCEPT !.total_locais = @ + n]
    ELSE IF t = "candidatos_meta" THEN [e EXCEPT !.total_candidatos_meta = @ + n]
    ELSE [e EXCEPT !.total_partidos_meta = @ + n]

\* What a turn of the loop did: the file, its table, how it ended ("ok",
\* "none", "raise" of the processing function, "to_sql" when the append
\* raised) and the lines appended.
Turno(nome, t, st, n) == [nome |-> nome, tabela |-> t, st |-> st, linhas |-> n]

\* What the branch of the loop taken by the file nome gets from its
\* processing function; SemFrame when the file is gone from the volume.
resultado_no_volume(vol, nome) ==
    IF \E a \in vol : a.name = nome
    THEN processar_no_volume[CHOOSE a \in vol : a.name = nome]
    ELSE SemFrame

\* How the turn on the file nome ends, res being what its processing
\* function gave: as res does, or "to_sql" when the append raises.
fim_do_turno(nome, res) ==
    IF res.st = "ok" /\ res.rows # <<>> /\ nome \in sem_espaco THEN "to_sql" ELSE res.st

\* The end of a turn on the file nome of table t, res being what its
\* processing function gave and st how the turn ends.  An exception of the
\* processing function or of to_sql leaves the loop and the function: no
\* handler surrounds them.
Anexar(e, eprox, nome, t, res, st) ==
    IF st \in {"raise", "to_sql"}
    THEN /\ eprox = Parado
         /\ resposta' = [st |-> "erro", registros_votos |-> 0]
         /\ historia' = Append(historia,
                Encerrada([e EXCEPT !.processados = Append(@, Turno(nome, t, st, 0))],
                          "erro", nUploads, db, indices))
         /\ UNCHANGED db
    ELSE /\ IF st = "ok" /\ res.rows # <<>>
            THEN /\ db' = to_sql(db, t, res.rows)
                 /\ eprox = [Somar(e, t, Len(res.rows)) EXCEPT
                                 !.arquivos = Tail(@),
                                 !.processados = Append(@, Turno(nome, t, st, Len(res.rows)))]
            ELSE /\ UNCHANGED db
                 /\ eprox = [e EXCEPT !.arquivos = Tail(@),
                                      !.processados = Append(@, Turno(nome, t, st, 0))]
         /\ UNCHANGED <<resposta, historia>>

\* One turn of the loop of ingest_all: classify, process, append.
IngestArquivoEm(e, eprox) ==
    /\ e.pc = "arquivos"
    /\ e.arquivos # <<>>
    /\ Anexar(e, eprox, Head(e.arquivos), classificar_no_volume[Head(e.arquivos)],
              resultado_no_volume(volume, Head(e.arquivos)),
              fim_do_turno(Head(e.arquivos), resultado_no_volume(volume, Head(e.arquivos))))
    /\ UNCHANGED <<volume, sem_espaco, indices, nUploads, nExec, entrada, saida>>

IngestArquivo == IngestArquivoEm(exec, exec') /\ UNCHANGED <<outra, pedido, pasta>>

\* The end of ingest_all: the three index builders, close, return total_votos.
IngestFimEm(e, eprox) ==
    /\ e.pc = "arquivos"
    /\ e.arquivos = <<>>
    /\ indices' = create_meta_indexes(db, create_locais_indexes(db, create_indexes(db, indices)))
    /\ historia' = Append(historia, Encerrada(e, "ok", nUploads, db, indices'))
    /\ IF e.chamador = "reload_dados"
       THEN /\ eprox = [e EXCEPT !.pc = "criar_indices"]
            /\ UNCHANGED resposta
       ELSE /\ eprox = Parado
            /\ resposta' = [st |-> "ok", registros_votos |-> retorno(e)]
    /\ UNCHANGED <<volume, sem_espaco, db, nUploads, nExec, entrada, saida>>

IngestFim == IngestFimEm(exec, exec') /\ UNCHANGED <<outra, pedido, pasta>>

\* The rest of reload_dados: criar_indices() and the response.
ReloadFimEm(e, eprox) ==
    /\ e.pc = "criar_indices"
    /\ indices' = criar_indices(db, indices)
    /\ resposta' = [st |-> "ok", registros_votos |-> retorno(e)]
    /\ eprox = Parado
    /\ UNCHANGED <<volume, sem_espaco, db, nUploads, nExec, historia, entrada, saida>>

ReloadFim == ReloadFimEm(exec, exec') /\ UNCHANGED <<outra, pedido, pasta>>

\* POST /upload: the file is written under its name, replacing a file of that name.
upload_csv(arq) ==
    /\ nUploads < MaxUploads
    /\ EndsWith(lower(arq.name), EXT_CSV)
    /\ nUploads' = nUploads + 1
    /\ volume' = {a \in volume : a.name # arq.name} \cup {arq}
    /\ UNCHANGED <<pasta, db, indices, exec, outra, sem_espaco, resposta, nExec, historia, pedido, entrada, saida>>

\* The service after construction: no database file, no call in progress
InitBanco ==
    /\ db = [t \in TabelasDoBanco |-> SemTabela]
    /\ indices = {}
    /\ exec = Parado
    /\ outra = Parado
    /\ resposta = SemResposta
    /\ nUploads = 0
    /\ nExec = 0
    /\ historia = <<>>
    /\ pedido = SemPedido

\* and an empty volume.
InitSistema ==
    /\ volume = {}
    /\ pasta = TRUE
    /\ InitBanco

Init ==
    /\ InitSistema
    /\ sem_espaco = {}
    /\ entrada = <<>>
    /\ saida = <<>>

Next ==
    \/ reload_dados
    \/ \E clear_table \in BOOLEAN : ingest_all(clear_table)
    \/ IngestArquivo
    \/ IngestFim
    \/ ReloadFim
    \/ \E arq \in Universo : upload_csv(arq)

Spec == Init /\ [][Next]_vars

----------------------------------------------------------------------------
(* Two POST /reload requests.  reload_dados is a plain def: the framework  *)
(* runs each request in a worker thread, and nothing in reload_dados or    *)
(* ingest_all keeps two calls apart.  Each call has its own connection;    *)
(* the DROP statements with their commit, each to_sql with its commit and  *)
(* the index builders are the steps SQLite serialises between them.        *)

reload_dados_na_outra ==
    pasta /\ IngestInicioEm(outra, outra', TRUE, "reload_dados") /\ UNCHANGED <<exec, pedido, pasta>>

IngestArquivoNaOutra == IngestArquivoEm(outra, outra') /\ UNCHANGED <<exec, pedido, pasta>>

IngestFimNaOutra == IngestFimEm(outra, outra') /\ UNCHANGED <<exec, pedido, pasta>>

ReloadFimNaOutra == ReloadFimEm(outra, outra') /\ UNCHANGED <<exec, pedido, pasta>>

UniversoConcorrente == {ArqSecao, ArqCand1, ArqPart, ArqDetalhe}

InitConcorrente ==
    /\ InitBanco
    /\ volume \in SUBSET UniversoConcorrente
    /\ pasta = TRUE
    /\ sem_espaco = {}
    /\ entrada = <<>>
    /\ saida = <<>>

NextConcorrente ==
    \/ reload_dados
    \/ IngestArquivo
    \/ IngestFim
    \/ ReloadFim
    \/ reload_dados_na_outra
    \/ IngestArquivoNaOutra
    \/ IngestFimNaOutra
    \/ ReloadFimNaOutra

SpecConcorrente == InitConcorrente /\ [][NextConcorrente]_vars

----------------------------------------------------------------------------
(* A batch.  The volume holds any of the files of UniversoLote from the    *)
(* start and does not change; the database rejects the appends of the      *)
(* files of sem_espaco.                                                    *)

InitLote ==
    /\ InitBanco
    /\ volume \in SUBSET UniversoLote
    /\ pasta = TRUE
    /\ sem_espaco \in {{}, {NOME_AMOSTRA}, {NOME_SECAO}}
    /\ entrada = <<>>
    /\ saida = <<>>

NextLote ==
    \/ reload_dados
    \/ \E clear_table \in BOOLEAN : ingest_all(clear_table)
    \/ IngestArquivo
    \/ IngestFim
    \/ ReloadFim

SpecLote == InitLote /\ [][NextLote]_vars

----------------------------------------------------------------------------
(* The service.  At the start the directory of the volume is missing, or   *)
(* it is there and holds any of the files of UniversoServico.  Besides     *)
(* POST /reload and ingest_all called as a function, the application       *)
(* starts (again), GET /votos/zona is served and POST /clear-volume        *)
(* empties the volume.  The three are plain defs: a request is served in a *)
(* worker thread while a reload is in progress in another, and reads the   *)
(* tables as the last commit of the reload left them.  The database file   *)
(* is a file of the volume (ingestor.py:16, main.py:18).                   *)

\* SELECT COUNT(*) FROM votos, 0 when the table is missing
contar_registros(d) == IF d["votos"].existe THEN Len(d["votos"].linhas) ELSE 0

\* a reload that dropped the tables is between its steps
EmRecarga(e) == e.pc # "idle" /\ e.chamador = "reload_dados" /\ e.clear_table

\* startup that reloads the CSV files, as it once did
startup_com_recarga ==
    /\ pedido.n < MaxPedidos
    /\ pasta
    /\ IngestInicioEm(exec, exec', TRUE, "reload_dados")
    /\ pedido' = Pedido(pedido.n + 1, "startup_event", "ok", FALSE, FALSE, contar_registros(db'))
    /\ UNCHANGED <<outra, pasta>>

\* The application starts: the module creates the directory of the volume
\* if it is missing (main.py:19), then criar_indices() and contar_registros().
startup_event ==
    /\ pedido.n < MaxPedidos
    /\ exec.pc = "idle"
    /\ pasta' = TRUE
    /\ indices' = criar_indices(db, indices)
    /\ pedido' = Pedido(pedido.n + 1, "startup_event", "ok", FALSE, FALSE, contar_registros(db))
    /\ UNCHANGED <<volume, db, exec, outra, sem_espaco, resposta, nUploads, nExec, historia, entrada, saida>>

\* GET /votos/zona: one SELECT on votos, with no handler around it; the
\* OperationalError of a missing table leaves the endpoint.
votos_por_zona ==
    /\ pedido.n < MaxPedidos
    /\ pasta
    /\ pedido' = Pedido(pedido.n + 1, "votos_por_zona",
                        IF db["votos"].existe THEN "ok" ELSE "erro",
                        EmRecarga(exec),
                        EmRecarga(exec) /\ exec.db0["votos"].existe,
                        0)
    /\ UNCHANGED <<volume, pasta, db, indices, exec, outra, sem_espaco, resposta, nUploads, nExec, historia, entrada, saida>>

\* clear-volume that removes the CSV files only
clear_volume_so_csv ==
    /\ pedido.n < MaxPedidos
    /\ pasta
    /\ volume' = {a \in volume : ~EndsWith(lower(a.name), EXT_CSV)}
    /\ pedido' = Pedido(pedido.n + 1, "clear_volume", "ok", EmRecarga(exec), FALSE, 0)
    /\ UNCHANGED <<pasta, db, indices, exec, outra, sem_espaco, resposta, nUploads, nExec, historia, entrada, saida>>

\* POST /clear-volume: every file of the volume is unlinked, the database
\* file among them; the next connection creates an empty database.
clear_volume ==
    /\ pedido.n < MaxPedidos
    /\ pasta
    /\ volume' = {}
    /\ db' = [t \in TabelasDoBanco |-> SemTabela]
    /\ indices' = {}
    /\ pedido' = Pedido(pedido.n + 1, "clear_volume", "ok", EmRecarga(exec), FALSE, 0)
    /\ UNCHANGED <<pasta, exec, outra, sem_espaco, resposta, nUploads, nExec, historia, entrada, saida>>

InitServico ==
    /\ InitBanco
    /\ pasta \in BOOLEAN
    /\ volume \in IF pasta THEN SUBSET UniversoServico ELSE {{}}
    /\ sem_espaco = {}
    /\ entrada = <<>>
    /\ saida = <<>>

NextServico ==
    \/ reload_dados
    \/ \E clear_table \in BOOLEAN : ingest_all(clear_table)
    \/ IngestArquivo
    \/ IngestFim
    \/ ReloadFim
    \/ startup_event
    \/ votos_por_zona
    \/ clear_volume

SpecServico == InitServico /\ [][NextServico]_vars

----------------------------------------------------------------------------
(* One file through its processing function.  The input is any file of   *)
(* at most MaxLinhas data lines in one of three layouts, its cells drawn   *)
(* from numerals, blanks, the null markers and text, or a file with the    *)
(* year and the state in columns under a name without them, or a file with *)
(* polling-place columns in any order.                                     *)

SeqAte(S, n) == UNION {[1..k -> S] : k \in 0..n}

CELULAS_CONTADOR == {N_50, N_NEG5, <<>>, SENT_NULO, SENT_NE, N_x5}

ArquivosVotos ==
    {[leitura |-> "ok", name |-> NOME_SECAO, columns |-> <<NR_CANDIDATO, QT_VOTOS>>, rows |-> rs] :
        rs \in SeqAte({<<p, v>> : p \in {N_45, <<>>}, v \in CELULAS_CONTADOR}, MaxLinhas)}

ArquivosCandidatos ==
    {[leitura |-> "ok", name |-> NOME_CAND_1,
      columns |-> <<CD_CARGO, NR_TURNO, NR_CANDIDATO, DS_SIT_TOT_TURNO>>, rows |-> rs] :
        rs \in SeqAte({<<N_13, N_1, n, st>> : n \in {N_45, N_46, <<>>},
                                              st \in {T_SUPLENTE, T_ELEITO}}, MaxLinhas)}

ArquivosPartidos ==
    {[leitura |-> "ok", name |-> NOME_PART,
      columns |-> <<CD_CARGO, NR_TURNO, CD_MUNICIPIO, SG_PARTIDO, DS_SIT_TOT_TURNO,
                    QT_TOTAL_VOTOS_LEG_VALIDOS>>, rows |-> rs] :
        rs \in SeqAte({<<N_13, N_1, N_71072, sg, st, qt>> :
                          sg \in {T_PT, T_MDB}, st \in {T_SUPLENTE, T_ELEITO},
                          qt \in {N_7, SENT_NE, N_x5}}, MaxLinhas)}

T_RJ == <<"R", "J">>

NOME_SEM_ANO_UF == <<"v", "o", "t", "a", "c", "a", "o", "_", "s", "e", "c", "a", "o", ".", "c", "s", "v">>
NOME_SO_ANO == <<"v", "o", "t", "a", "c", "a", "o", "_", "s", "e", "c", "a", "o", "_", "2", "0", "2", "4", ".", "c", "s", "v">>
NOME_SO_UF == <<"v", "o", "t", "a", "c", "a", "o", "_", "s", "e", "c", "a", "o", "_", "S", "P", ".", "c", "s", "v">>
NOME_CAND_SEM_ANO_UF == <<"v", "o", "t", "a", "c", "a", "o", "_", "c", "a", "n", "d", "i", "d", "a", "t", "o", "_", "m", "u", "n", "z", "o", "n", "a", ".", "c", "s", "v">>

\* Section files and a candidate file whose name lacks the year, the state
\* or both, with the year and the state in columns, at least one data line.
ArquivosComAnoEmColuna ==
    {[leitura |-> "ok", name |-> n,
      columns |-> <<ANO_ELEICAO, SG_UF, NR_CANDIDATO, QT_VOTOS>>, rows |-> rs] :
        n \in {NOME_SEM_ANO_UF, NOME_SO_ANO, NOME_SO_UF, NOME_SECAO},
        rs \in SeqAte({<<a, u, N_45, N_50>> : a \in {T_2022, T_2024, <<>>}, u \in {T_SP, T_RJ}},
                      MaxLinhas) \ {<<>>}}
    \cup
    {[leitura |-> "ok", name |-> NOME_CAND_SEM_ANO_UF,
      columns |-> <<ANO_ELEICAO, SG_UF, CD_CARGO, NR_TURNO, NR_CANDIDATO>>, rows |-> rs] :
        rs \in SeqAte({<<a, u, N_13, N_1, n>> : a \in {T_2022, T_2024}, u \in {T_SP, T_RJ},
                                                n \in {N_45, N_46}},
                      MaxLinhas) \ {<<>>}}

COLUNAS_DO_LOCAL == {NR_LOCAL_VOTACAO, NM_LOCAL_VOTACAO, DS_LOCAL_VOTACAO_ENDERECO}

\* What a line says under each polling-place column
CelulaDoLocal(c) ==
    IF c = NR_LOCAL_VOTACAO THEN N_7 ELSE IF c = NM_LOCAL_VOTACAO THEN T_Escola ELSE T_Rua

Permutacoes(S) ==
    {p \in [1..Cardinality(S) -> S] : \A i, j \in 1..Cardinality(S) : p[i] = p[j] => i = j}

\* Section files of one line with any of the polling-place columns, in any
\* order.
ArquivosComLocal ==
    {[leitura |-> "ok", name |-> NOME_SECAO,
      columns |-> <<NR_CANDIDATO, QT_VOTOS>> \o p,
      rows    |-> << <<N_45, N_50>> \o [i \in 1..Len(p) |-> CelulaDoLocal(p[i])] >>] :
        p \in UNION {Permutacoes(S) : S \in SUBSET COLUNAS_DO_LOCAL}}

ArquivosGerados ==
    ArquivosVotos \cup ArquivosCandidatos \cup ArquivosPartidos \cup ArquivosComAnoEmColuna
        \cup ArquivosComLocal

InitArquivo ==
    /\ InitSistema
    /\ sem_espaco = {}
    /\ entrada \in ArquivosGerados
    /\ saida = <<>>

\* The body of one turn of the loop of ingest_all, up to the frame it would
\* append: the table the name selects and what the processing function returns.
ProcessarEntrada ==
    /\ saida = <<>>
    /\ saida' = <<[tabela |-> classificar(entrada.name), res |-> processar(entrada)]>>
    /\ UNCHANGED <<volume, pasta, db, indices, exec, outra, sem_espaco, resposta, nUploads, nExec, historia, pedido, entrada>>

NextArquivo == ProcessarEntrada

SpecArquivo == InitArquivo /\ [][NextArquivo]_vars

----------------------------------------------------------------------------
(* One header through detectar_colunas.  The input is any set of the     *)
(* columns the resolver looks at and of the section columns it does not,   *)
(* in ascending or descending order, or a header whose names are in lower  *)
(* case or followed by a blank.                                            *)

COLUNAS_RESOLVER ==
    {QT_VOTOS_NOMINAIS, QT_VOTOS_NOMINAIS_VALIDOS, QT_VOTOS, QT_VOTOS_VALIDOS,
     NM_CANDIDATO, NM_URNA_CANDIDATO, NM_VOTAVEL, SG_PARTIDO, NM_PARTIDO,
     NR_ZONA, NR_SECAO}

Inverter(seq) == [i \in 1..Len(seq) |-> seq[Len(seq) + 1 - i]]

\* A column name as the exports spell it, in lower case, and with a blank
\* after it
Grafias(c) == {c, lower(c), c \o <<" ">>, lower(c) \o <<" ">>}

COLUNAS_GRAFADAS == <<NM_CANDIDATO, NR_ZONA, QT_VOTOS, SG_PARTIDO>>

\* The header h with each name in any of its spellings
RECURSIVE Grafar(_)
Grafar(h) ==
    IF h = <<>> THEN {<<>>}
    ELSE {<<g>> \o r : g \in Grafias(Head(h)), r \in Grafar(Tail(h))}

CabecalhosGrafados ==
    UNION {Grafar(sorted(S)) : S \in SUBSET {COLUNAS_GRAFADAS[k] : k \in 1..Len(COLUNAS_GRAFADAS)}}

Cabecalhos ==
    {sorted(S) : S \in SUBSET COLUNAS_RESOLVER}
        \cup {Inverter(sorted(S)) : S \in SUBSET COLUNAS_RESOLVER}
        \cup CabecalhosGrafados

InitColunas ==
    /\ InitSistema
    /\ sem_espaco = {}
    /\ entrada \in Cabecalhos
    /\ saida = <<>>

ResolverEntrada ==
    /\ saida = <<>>
    /\ saida' = <<detectar_colunas(entrada)>>
    /\ UNCHANGED <<volume, pasta, db, indices, exec, outra, sem_espaco, resposta, nUploads, nExec, historia, pedido, entrada>>

NextColunas == ResolverEntrada

SpecColunas == InitColunas /\ [][NextColunas]_vars

----------------------------------------------------------------------------
(* A file name through extrair_ano_uf_do_arquivo.  The input is the parts  *)
(* of a name PREFIXO <_> ANO <antes> UF <depois>: the prefixes of the TSE  *)
(* files, a year, the character before the state code, one of the codes   *)
(* of uf_pattern, and what follows the code.                               *)

PREFIXOS ==
    {<<"v", "o", "t", "a", "c", "a", "o", "_", "c", "a", "n", "d", "i", "d", "a", "t", "o", "_", "m", "u", "n", "z", "o", "n", "a">>,
     <<"d", "e", "t", "a", "l", "h", "e", "_", "v", "o", "t", "a", "c", "a", "o", "_", "s", "e", "c", "a", "o">>,
     <<"v", "o", "t", "a", "c", "a", "o", "_", "s", "e", "c", "a", "o">>}

ANOS == {<<"1", "9", "9", "8">>, <<"2", "0", "1", "8">>, <<"2", "0", "2", "4">>}

SUBLINHADO == <<"_">>
HIFEN == <<"-">>

\* what follows the state code: the extension, the suffixes of the split
\* files of the TSE, nothing, and a letter
DEPOIS_CSV == EXT_CSV
DEPOIS_9 == <<"_", "9", ".", "c", "s", "v">>
DEPOIS_PARTE2 == <<"_", "P", "A", "R", "T", "E", "2", ".", "c", "s", "v">>
DEPOIS_FIM == <<>>
DEPOIS_LETRA == <<"X", ".", "c", "s", "v">>

DEPOIS == {DEPOIS_CSV, DEPOIS_9, DEPOIS_PARTE2, DEPOIS_FIM, DEPOIS_LETRA}

PartesDeNome ==
    [prefixo : PREFIXOS, ano : ANOS, antes : {SUBLINHADO, HIFEN},
     uf : 1..Len(UF_ALTERNATIVAS), depois : DEPOIS, minusculo : BOOLEAN]

\* the name the parts spell, as the TSE writes it or all in lower case
NomeDe(p) ==
    LET n == p.prefixo \o SUBLINHADO \o p.ano \o p.antes \o UF_ALTERNATIVAS[p.uf] \o p.depois
    IN  IF p.minusculo THEN lower(n) ELSE n

InitNome ==
    /\ InitSistema
    /\ sem_espaco = {}
    /\ entrada \in PartesDeNome
    /\ saida = <<>>

ExtrairEntrada ==
    /\ saida = <<>>
    /\ saida' = <<extrair_ano_uf_do_arquivo(NomeDe(entrada))>>
    /\ UNCHANGED <<volume, pasta, db, indices, exec, outra, sem_espaco, resposta, nUploads, nExec, historia, pedido, entrada>>

NextNome == ExtrairEntrada

SpecNome == InitNome /\ [][NextNome]_vars

----------------------------------------------------------------------------
(* The classification of one file.  The input is the parts of a file: the  *)
(* markers its name carries and their order, the case of the name, its     *)
(* header and whether it has a data line.                                  *)

MARCAS == <<MARCA_DETALHE, MARCA_CANDIDATO, MARCA_PARTIDO, MARCA_MUNZONA>>

PREFIXO_VOTACAO == <<"V", "O", "T", "A", "C", "A", "O", "_">>
SUFIXO_2022_SP == <<"2", "0", "2", "2", "_", "S", "P", ".", "c", "s", "v">>

\* headers: of a section file, of a file with no vote-count column, of a
\* candidate file
COLUNAS_DE_SECAO == <<NR_ZONA, NR_SECAO, NR_VOTAVEL, QT_VOTOS>>
COLUNAS_SEM_VOTOS == <<NR_ZONA, NR_SECAO, NM_LOCAL_VOTACAO>>
COLUNAS_DE_CANDIDATO == <<CD_CARGO, NR_TURNO, NR_CANDIDATO, NM_URNA_CANDIDATO, SG_PARTIDO, QT_VOTOS_NOMINAIS>>

LinhaDe(columns) ==
    IF columns = COLUNAS_DE_SECAO THEN <<N_1, N_10, N_45, N_50>>
    ELSE IF columns = COLUNAS_SEM_VOTOS THEN <<N_1, N_10, T_Escola>>
    ELSE <<N_13, N_1, N_45, T_Alice, T_PT, N_100>>

PartesDeArquivo ==
    [marcas : SUBSET (1..Len(MARCAS)), invertido : BOOLEAN, minusculo : BOOLEAN,
     columns : {COLUNAS_DE_SECAO, COLUNAS_SEM_VOTOS, COLUNAS_DE_CANDIDATO},
     com_linha : BOOLEAN]

RECURSIVE Juntar(_, _)
\* the markers of ks, in the order of ks, each followed by '_'
Juntar(ks, marcas) ==
    IF ks = <<>> THEN <<>>
    ELSE (IF Head(ks) \in marcas THEN MARCAS[Head(ks)] \o SUBLINHADO ELSE <<>>)
         \o Juntar(Tail(ks), marcas)

NomeComMarcas(p) ==
    LET ordem == IF p.invertido THEN <<4, 3, 2, 1>> ELSE <<1, 2, 3, 4>>
        n     == PREFIXO_VOTACAO \o Juntar(ordem, p.marcas) \o SUFIXO_2022_SP
    IN  IF p.minusculo THEN lower(n) ELSE n

ArquivoDe(p) ==
    [leitura |-> "ok", name |-> NomeComMarcas(p), columns |-> p.columns,
     rows |-> IF p.com_linha THEN <<LinhaDe(p.columns)>> ELSE <<>>]

InitClasse ==
    /\ InitSistema
    /\ sem_espaco = {}
    /\ entrada \in PartesDeArquivo
    /\ saida = <<>>

\* One turn of the loop of ingest_all on the file: the branch its name takes
\* and what the processing function of the branch returns.
ClassificarEntrada ==
    /\ saida = <<>>
    /\ saida' = <<[tabela |-> classificar(NomeComMarcas(entrada)),
                   res    |-> processar(ArquivoDe(entrada))]>>
    /\ UNCHANGED <<volume, pasta, db, indices, exec, outra, sem_espaco, resposta, nUploads, nExec, historia, pedido, entrada>>

NextClasse == ClassificarEntrada

SpecClasse == InitClasse /\ [][NextClasse]_vars

----------------------------------------------------------------------------
(* Properties of the column resolver, under SpecColunas *)

\* c is the first name of ordem that the header has
PrimeiraPresente(ordem, columns, c) ==
    \E k \in 1..Len(ordem) :
        /\ ordem[k] = c
        /\ EstaEm(columns, c)
        /\ \A j \in 1..(k - 1) : ~EstaEm(columns, ordem[j])

NenhumaPresente(ordem, columns) == \A k \in 1..Len(ordem) : ~EstaEm(columns, ordem[k])

ORDEM_VOTOS == <<QT_VOTOS_NOMINAIS, QT_VOTOS_NOMINAIS_VALIDOS, QT_VOTOS, QT_VOTOS_VALIDOS>>

ORDEM_NOME_DECLARADA == <<NM_CANDIDATO, NM_URNA_CANDIDATO, NM_VOTAVEL>>

\* C9: the vote-count role is the first column present in the order
\* QT_VOTOS_NOMINAIS, QT_VOTOS_NOMINAIS_VALIDOS, QT_VOTOS, QT_VOTOS_VALIDOS,
\* and the resolver returns None exactly when none of the four is present.
C9_PrimeiraColunaDeVotos ==
    saida # <<>> =>
        /\ (saida[1] = <<>>) <=> NenhumaPresente(ORDEM_VOTOS, entrada)
        /\ saida[1] # <<>> => PrimeiraPresente(ORDEM_VOTOS, entrada, saida[1][1].vote)

\* A header with a later alias before an earlier one, and with more than one
\* alias, was resolved to the earliest alias of the order.
C9_Witness ==
    /\ saida # <<>>
    /\ saida[1] # <<>>
    /\ saida[1][1].vote = QT_VOTOS_NOMINAIS_VALIDOS
    /\ EstaEm(entrada, QT_VOTOS)
    /\ EstaEm(entrada, QT_VOTOS_VALIDOS)
    /\ entrada[1] = SG_PARTIDO

\* C10 as stated: the payee-name role is the first column present in the
\* order NM_CANDIDATO, NM_URNA_CANDIDATO, NM_VOTAVEL, absent only when none of
\* them is present, and its absence or the party's never makes the
\* resolution fail.
C10_NomeDoVotavel ==
    (saida # <<>> /\ ~NenhumaPresente(ORDEM_VOTOS, entrada)) =>
        /\ saida[1] # <<>>
        /\ (saida[1][1].cand = NULO) <=> NenhumaPresente(ORDEM_NOME_DECLARADA, entrada)
        /\ saida[1][1].cand # NULO =>
               PrimeiraPresente(ORDEM_NOME_DECLARADA, entrada, saida[1][1].cand)

----------------------------------------------------------------------------
(* Properties of the processing of one file, under SpecArquivo *)

Maximo(S) == CHOOSE x \in S : \A y \in S : y <= x

\* The frame the processing functions work on
QuadroDe(arq) == limpar_marcadores(ler_csv_flex(arq).df)

\* The cell of data line r under column c as the file spells it
CelulaCrua(arq, r, c) == arq.rows[r][Pos(arq.columns, c)]

COLS_CHAVE ==
    [candidatos_meta |-> <<CD_CARGO, NR_TURNO, NR_CANDIDATO>>,
     partidos_meta   |-> <<CD_CARGO, NR_TURNO, CD_MUNICIPIO, SG_PARTIDO>>]

\* The key of line r of the file: with the year and the state of the file,
\* which every line of one file shares, it is the deduplication key
ChaveLida(t, df, r) == [i \in 1..Len(COLS_CHAVE[t]) |-> Cel(df, r, COLS_CHAVE[t][i])]

ChaveGravada(t, l) ==
    IF t = "candidatos_meta" THEN <<l.cd_cargo, l.nr_turno, l.nr_candidato>>
    ELSE <<l.cd_cargo, l.nr_turno, l.cd_municipio, l.sg_partido>>

\* Line l of the output carries what line q of the file says beyond the key
MesmaLinha(t, df, q, l) ==
    /\ l.ds_sit_tot_turno = Cel(df, q, DS_SIT_TOT_TURNO)
    /\ t = "partidos_meta" =>
           l.qt_total_votos_leg_validos = to_numeric(Cel(df, q, QT_TOTAL_VOTOS_LEG_VALIDOS))

\* For every key of a metadata file the output has one line: the last of the
\* lines of the file with that key when ultima, the first otherwise.
MantemUmaPorChave(ultima) ==
    (saida # <<>> /\ saida[1].tabela \in {"candidatos_meta", "partidos_meta"}) =>
        LET t   == saida[1].tabela
            df  == QuadroDe(entrada)
            out == saida[1].res.rows
        IN  /\ saida[1].res.st = "ok"
            /\ \A r \in 1..Len(df.rows) :
                   LET iguais == {j \in 1..Len(df.rows) : ChaveLida(t, df, j) = ChaveLida(t, df, r)}
                       achadas == {o \in 1..Len(out) : ChaveGravada(t, out[o]) = ChaveLida(t, df, r)}
                   IN  /\ Cardinality(achadas) = 1
                       /\ \A o \in achadas : MesmaLinha(t, df, IF ultima THEN Maximo(iguais) ELSE Minimo(iguais), out[o])

CELULAS_SEM_NUMERO == {<<>>, SENT_NULO, SENT_NE, N_x5}

\* C7 as stated: a counter cell holding a null marker, a blank or text that
\* is no number is stored as the integer 0 and its line is still emitted,
\* for the vote column and for QT_TOTAL_VOTOS_LEG_VALIDOS of party files
\* (there, for the line that deduplication keeps for its key).
C7_ContadorZero ==
    saida # <<>> =>
        LET t   == saida[1].tabela
            df  == QuadroDe(entrada)
            out == saida[1].res.rows
        IN  /\ t = "votos" =>
                /\ Len(out) = Len(entrada.rows)
                /\ \A r \in 1..Len(entrada.rows) :
                       CelulaCrua(entrada, r, QT_VOTOS) \in CELULAS_SEM_NUMERO => out[r].votos = 0
            /\ t = "partidos_meta" =>
                \A r \in 1..Len(entrada.rows) :
                    (/\ CelulaCrua(entrada, r, QT_TOTAL_VOTOS_LEG_VALIDOS) \in CELULAS_SEM_NUMERO
                     /\ \A j \in 1..(r - 1) : ChaveLida(t, df, j) # ChaveLida(t, df, r))
                    => \E o \in 1..Len(out) :
                           /\ ChaveGravada(t, out[o]) = ChaveLida(t, df, r)
                           /\ out[o].qt_total_votos_leg_validos = <<0>>

\* C8 as stated: a line with no payee identifier is dropped, so no line
\* emitted for votos lacks one.
C8_SemVotavelDescartada ==
    (saida # <<>> /\ saida[1].tabela = "votos") =>
        \A i \in 1..Len(saida[1].res.rows) : saida[1].res.rows[i].nr_candidato # NULO

\* C8 as the code has it: no line of a vote file is dropped for lacking a
\* candidate number; every data line is emitted, in order, with
\* nr_candidato NULL where the cell is empty.
C8_NenhumaLinhaDescartada ==
    (saida # <<>> /\ saida[1].tabela = "votos") =>
        /\ saida[1].res.st = "ok"
        /\ Len(saida[1].res.rows) = Len(entrada.rows)
        /\ \A r \in 1..Len(entrada.rows) :
               saida[1].res.rows[r].nr_candidato =
                   IF CelulaCrua(entrada, r, NR_CANDIDATO) = <<>> THEN NULO
                   ELSE CelulaCrua(entrada, r, NR_CANDIDATO)

\* A vote file whose second line has no candidate number went through and
\* that line is in the output with a NULL number.
C8_Witness ==
    /\ saida # <<>>
    /\ saida[1].tabela = "votos"
    /\ Len(entrada.rows) = 2
    /\ CelulaCrua(entrada, 1, NR_CANDIDATO) = N_45
    /\ CelulaCrua(entrada, 2, NR_CANDIDATO) = <<>>
    /\ Len(saida[1].res.rows) = 2
    /\ saida[1].res.rows[2].nr_candidato = NULO

----------------------------------------------------------------------------
(* Properties of the service, under Spec *)

LinhasDe(d, t) == {d[t].linhas[i] : i \in 1..Len(d[t].linhas)}

\* The ended calls that were reloads and returned
Recargas == {i \in 1..Len(historia) : historia[i].clear_table /\ historia[i].st = "ok"}

METADADOS == {"candidatos_meta", "partidos_meta"}

C3_ChaveUnica ==
    \A i \in Recargas :
        LET ls == historia[i].db["candidatos_meta"].linhas
        IN  \A a, b \in 1..Len(ls) : ChaveCandidato(ls[a]) = ChaveCandidato(ls[b]) => a = b

RECURSIVE SomaVotos(_, _, _, _)
SomaVotos(ls, ano, uf, nr) ==
    IF ls = <<>> THEN 0
    ELSE (IF Head(ls).ano = ano /\ Head(ls).uf = uf /\ Head(ls).nr_candidato = nr
          THEN Head(ls).votos ELSE 0) + SomaVotos(Tail(ls), ano, uf, nr)

\* C4 as stated: a reload over votacao_secao_2024_SP.csv alone, with the
\* header ANO_ELEICAO;SG_UF;NR_ZONA;NR_SECAO;NR_VOTAVEL;NM_VOTAVEL;QT_VOTOS
\* and the lines (100, 50), (200, 30), (100, 20), loads three lines, each
\* with its payee number, and the votes of payee 100 in 2024/SP sum to 70.
C4_SecaoPorVotavel ==
    \A i \in Recargas :
        (volume = {ArqSecao} /\ nUploads = 1 /\ historia[i].up0 = 1) =>
            LET ls == historia[i].db["votos"].linhas
            IN  /\ Len(ls) = 3
                /\ ls[1].nr_candidato = N_100
                /\ ls[2].nr_candidato = N_200
                /\ ls[3].nr_candidato = N_100
                /\ SomaVotos(ls, T_2024, T_SP, N_100) = 70

C6_VotosNaoNegativos ==
    \A i \in 1..Len(db["votos"].linhas) : db["votos"].linhas[i].votos >= 0

----------------------------------------------------------------------------
(* Properties of the file-name parsing, under SpecNome *)

\* the state code of the name stands between '_' and '_', '.' or the end
Delimitada(p) == p.antes = SUBLINHADO /\ p.depois # DEPOIS_LETRA

\* C11: for a name PREFIX_YYYY_UF[_suffix].csv the year returned is YYYY and
\* the state returned is UF, with no suffix, with _9 and with _PARTE2; a
\* code that is not preceded by '_', or that is followed by a letter, is not
\* returned as the state.
C11_AnoEUfDoNome ==
    saida # <<>> =>
        /\ saida[1].ano = entrada.ano
        /\ saida[1].uf = IF Delimitada(entrada) THEN UF_ALTERNATIVAS[entrada.uf] ELSE NULO

\* A lower-case name with the suffix _PARTE2 after the code PA: the year and
\* the state are those of the name.
C11_Witness ==
    /\ saida # <<>>
    /\ entrada.minusculo
    /\ entrada.antes = SUBLINHADO
    /\ entrada.depois = DEPOIS_PARTE2
    /\ UF_ALTERNATIVAS[entrada.uf] = <<"P", "B">>
    /\ saida[1] = [ano |-> entrada.ano, uf |-> <<"P", "B">>]

----------------------------------------------------------------------------
(* Properties of the classification, under SpecClasse *)

\* the kind the file was treated as: the table of the branch taken, and in
\* the last branch "unclassified" when the processing function returns None
TipoDado(o) ==
    IF o.tabela # "votos" THEN o.tabela
    ELSE IF o.res.st = "none" THEN "unclassified" ELSE "votos"

\* the kind the rules give, in their order, from the parts of the file
TipoPelaOrdem(p) ==
    IF 1 \in p.marcas THEN "locais_secao"
    ELSE IF {2, 4} \subseteq p.marcas THEN "candidatos_meta"
    ELSE IF {3, 4} \subseteq p.marcas THEN "partidos_meta"
    ELSE IF p.columns # COLUNAS_SEM_VOTOS THEN "votos"
    ELSE "unclassified"

\* C12: the kind of a file is that of the first rule that matches, in the
\* order DETALHE_VOTACAO_SECAO, CANDIDATO and MUNZONA, PARTIDO and MUNZONA,
\* a vote-count column, and unclassified when none matches.
C12_PrimeiraRegra == saida # <<>> => TipoDado(saida[1]) = TipoPelaOrdem(entrada)

\* A lower-case name with PARTIDO before CANDIDATO and MUNZONA, over a
\* section header: candidate metadata.
C12_Witness ==
    /\ saida # <<>>
    /\ entrada.marcas = {2, 3, 4}
    /\ entrada.invertido
    /\ entrada.minusculo
    /\ entrada.columns = COLUNAS_DE_SECAO
    /\ saida[1].tabela = "candidatos_meta"

----------------------------------------------------------------------------
(* Properties of a batch, under SpecLote *)

\* the file of the volume under a name
NoVolume(nome) == CHOOSE a \in volume : a.name = nome

\* the name carries no marker of a kind and the header has no vote-count alias
SemTipo(a) ==
    /\ \A k \in 1..Len(MARCAS) : ~Contem(upper(a.name), MARCAS[k])
    /\ NenhumaPresente(ORDEM_VOTOS, a.columns)

\* the loop of the call in progress is at a file of that description
NaVezDeSemTipo ==
    /\ exec.pc = "arquivos"
    /\ exec.arquivos # <<>>
    /\ \E a \in volume : a.name = Head(exec.arquivos) /\ SemTipo(a)

TurnosDe(processados) ==
    {[turno |-> processados[k], arq |-> NoVolume(processados[k].nome), ultimo |-> k = Len(processados)] :
        k \in 1..Len(processados)}

\* the reading of the file of a turn: one or two attempts, the second one
\* exactly when the first one raised ParserError; the lines the second one
\* keeps are appended; a file that neither attempt reads gives no lines
LeituraDoTurno(x) ==
    LET l == ler_csv_flex(x.arq)
    IN  /\ l.tentativas \in {1, 2}
        /\ l.tentativas = 2 <=> read_csv_estrito(x.arq) = "ParserError"
        /\ (l.tentativas = 2 /\ read_csv_tolerante(x.arq) = "ok" /\ x.arq.name \notin sem_espaco)
              => x.turno.st = "ok" /\ x.turno.linhas = Len(LinhasBoas(x.arq))
        /\ l.st = "none" => x.turno.st = "none" /\ x.turno.linhas = 0

C15_FalhaDeEscritaSoDoArquivo ==
    \A i \in 1..Len(historia) :
        (\E x \in TurnosDe(historia[i].processados) : x.turno.st = "to_sql")
            => Len(historia[i].processados) = Len(glob_csv(volume))

\* The rejected append ended the call with the exception, and the file
\* after it had no turn.
C15_Witness ==
    \E i \in 1..Len(historia) :
        LET ps == historia[i].processados
        IN  /\ historia[i].st = "erro"
            /\ ps[Len(ps)].nome = NOME_AMOSTRA
            /\ ps[Len(ps)].st = "to_sql"
            /\ ArqSecao \in volume
            /\ ~historia[i].db["votos"].existe

----------------------------------------------------------------------------
(* Properties of the runs of ingest_all, under Spec *)

\* the turns of a call that appended the lines of their file
Carregados(processados) ==
    {k \in 1..Len(processados) : processados[k].st = "ok" /\ processados[k].linhas > 0}

\* C16: a call of ingest_all leaves in import_log one more line for each
\* file it loaded, and none for the other files.
C16_UmRegistroPorArquivo ==
    \A i \in 1..Len(historia) :
        Len(historia[i].db[IMPORT_LOG].linhas) - Len(historia[i].db0[IMPORT_LOG].linhas)
            = Cardinality(Carregados(historia[i].processados))

\* A call that loaded two files and ended with no import_log table.
C16_Witness ==
    \E i \in 1..Len(historia) :
        /\ historia[i].st = "ok"
        /\ Cardinality(Carregados(historia[i].processados)) = 2
        /\ ~historia[i].db[IMPORT_LOG].existe


\* the lines a call that ended appended to a table, counted on the table
Acrescentadas(h, t) ==
    Len(h.db[t].linhas) - (IF h.clear_table THEN 0 ELSE Len(h.db0[t].linhas))

\* the last call has returned and its return value is in the response
Retornou ==
    /\ exec.pc = "idle"
    /\ historia # <<>>
    /\ resposta.st = "ok"

Ultima == historia[Len(historia)]

Construtores(d, ix) ==
    criar_indices(d, create_meta_indexes(d, create_locais_indexes(d, create_indexes(d, ix))))

\* the indexes the CREATE INDEX statements of the builders define on a table
IndicesDeclarados(t) ==
    LET todos == INDICES_VOTOS \o INDICES_LOCAIS \o INDICES_CANDIDATOS \o INDICES_PARTIDOS
                 \o INDICES_MAIN
    IN  {i \in {todos[k] : k \in 1..Len(todos)} : i.tabela = t}

\* C18: run on any state of the database, the index builders leave every
\* table that exists with all the indexes declared on it and a table that
\* does not exist with none, whatever the other tables; run again they
\* change nothing.
C18_IndicesPorTabela ==
    LET ix1 == Construtores(db, indices)
    IN  /\ \A t \in Tabelas :
              IF db[t].existe
              THEN IndicesDeclarados(t) \subseteq ix1
              ELSE \A i \in ix1 : i.tabela # t
        /\ Construtores(db, ix1) = ix1

\* After a reload that loaded votos and no candidate file, the guarded
\* builders have run: votos has idx_votos_cargo on (ano, uf, cd_cargo), the
\* statement of criar_indices for the same name on (cd_cargo, ds_cargo)
\* created nothing, and candidatos_meta has no index.
C18_Witness ==
    /\ Retornou
    /\ db["votos"].existe
    /\ ~db["candidatos_meta"].existe
    /\ Indice("idx_votos_cargo", "votos", "ano, uf, cd_cargo") \in indices
    /\ Indice("idx_votos_candidato", "votos", "nm_candidato") \in indices
    /\ Indice("idx_votos_cargo", "votos", "cd_cargo, ds_cargo") \notin indices
    /\ \A i \in indices : i.tabela # "candidatos_meta"

----------------------------------------------------------------------------
(* Index creation and the load, under SpecLote *)

\* the three index builders ingest_all ends with
ConstrutoresDaCarga(d, ix) ==
    create_meta_indexes(d, create_locais_indexes(d, create_indexes(d, ix)))

----------------------------------------------------------------------------
(* Two reloads at once, under SpecConcorrente *)

RECURSIVE Carregar(_, _)
\* the tables after the files of nomes are appended to d, one after the other
Carregar(d, nomes) ==
    IF nomes = <<>> THEN d
    ELSE LET res == processar_no_volume[NoVolume(Head(nomes))]
         IN  Carregar(IF res.st = "ok" /\ res.rows # <<>>
                      THEN to_sql(d, classificar_no_volume[Head(nomes)], res.rows)
                      ELSE d,
                      Tail(nomes))

\* the tables a single reload leaves
UmaRecarga == Carregar(drop_tables(db, TABELAS_LIMPAS), glob_csv(volume))

\* a call is between its DROP statements and its last append
Carregando(e) == e.pc = "arquivos"

\* C20: two calls are never both between their DROP statements and their
\* last append, and once two overlapping reloads have ended the tables are
\* those of a single reload.
C20_UmaCargaPorVez ==
    /\ ~(Carregando(exec) /\ Carregando(outra))
    /\ (exec.pc = "idle" /\ outra.pc = "idle" /\ Len(historia) = 2) => db = UmaRecarga

\* Two reloads that overlapped have ended and votos holds the lines of the
\* section file twice.
C20_Witness ==
    /\ exec.pc = "idle"
    /\ outra.pc = "idle"
    /\ Len(historia) = 2
    /\ ArqSecao \in volume
    /\ Len(db["votos"].linhas) = 2 * Len(ArqSecao.rows)
    /\ Len(UmaRecarga["votos"].linhas) = Len(ArqSecao.rows)

----------------------------------------------------------------------------
(* The year and the state of the lines of one file, under SpecArquivo *)

\* The data lines of the file that line i of the output stands for: line i
\* of a vote file, the lines with its key of a metadata file
LinhasDeOrigem(t, df, out, i) ==
    IF t = "votos" THEN {i}
    ELSE {r \in 1..Len(df.rows) : ChaveLida(t, df, r) = ChaveGravada(t, out[i])}

\* C22 as stated: the year and the state of the file name go before the
\* columns, and without a year (a state) in the name every emitted line has
\* the year (the state) of its own ANO_ELEICAO (SG_UF) cell.
C22_AnoEUfDeCadaLinha ==
    (saida # <<>> /\ saida[1].res.st = "ok") =>
        LET t      == saida[1].tabela
            df     == QuadroDe(entrada)
            out    == saida[1].res.rows
            doNome == extrair_ano_uf_do_arquivo(entrada.name)
        IN  \A i \in 1..Len(out) :
                /\ doNome.ano # NULO => out[i].ano = doNome.ano
                /\ doNome.uf # NULO => out[i].uf = doNome.uf
                /\ doNome.ano = NULO =>
                       \E r \in LinhasDeOrigem(t, df, out, i) : out[i].ano = Cel(df, r, ANO_ELEICAO)
                /\ doNome.uf = NULO =>
                       \E r \in LinhasDeOrigem(t, df, out, i) : out[i].uf = Cel(df, r, SG_UF)

\* votacao_secao.csv with a line of 2022 and a line of 2024 went through:
\* both emitted lines carry 2022, the year of the first line.
C22_Witness ==
    /\ saida # <<>>
    /\ entrada.name = NOME_SEM_ANO_UF
    /\ Len(entrada.rows) = 2
    /\ CelulaCrua(entrada, 1, ANO_ELEICAO) = T_2022
    /\ CelulaCrua(entrada, 2, ANO_ELEICAO) = T_2024
    /\ saida[1].res.st = "ok"
    /\ Len(saida[1].res.rows) = 2
    /\ saida[1].res.rows[1].ano = T_2022
    /\ saida[1].res.rows[2].ano = T_2022


----------------------------------------------------------------------------
(* Properties of the header names, under SpecColunas *)

\* str.strip() for blanks
RECURSIVE strip(_)
strip(s) ==
    IF s # <<>> /\ Head(s) = " " THEN strip(Tail(s))
    ELSE IF s # <<>> /\ s[Len(s)] = " " THEN strip(SubSeq(s, 1, Len(s) - 1))
    ELSE s

\* The header with every name trimmed and in upper case
Normalizada(columns) == [i \in 1..Len(columns) |-> upper(strip(columns[i]))]

\* C23 as stated: the resolver gives a header what it gives the same header
\* with its names trimmed and in upper case.
C23_ResolucaoSemCaixaNemEspaco ==
    saida # <<>> => saida[1] = detectar_colunas(Normalizada(entrada))

\* The header 'qt_votos ' went through the resolver, which found no
\* vote-count column in it, while 'QT_VOTOS' resolves the role.
C23_Witness ==
    /\ saida # <<>>
    /\ entrada = <<lower(QT_VOTOS) \o <<" ">>>>
    /\ saida[1] = <<>>
    /\ detectar_colunas(<<QT_VOTOS>>) # <<>>
    /\ detectar_colunas(<<QT_VOTOS>>)[1].vote = QT_VOTOS


PAPEIS_DO_LOCAL == {"cd_local", "nm_local", "ds_local_endereco"}

\* The upper-cased column name up carries the marker of the role papel
TemMarca(papel, up) ==
    IF papel = "cd_local" THEN EhCdLocal(up)
    ELSE IF papel = "nm_local" THEN EhNmLocal(up)
    ELSE EhEnderecoLocal(up)

\* The columns of the header that are the first to carry the marker of papel
PrimeirasComMarca(columns, papel) ==
    {i \in 1..Len(columns) :
        /\ TemMarca(papel, upper(columns[i]))
        /\ \A j \in 1..(i - 1) : ~TemMarca(papel, upper(columns[j]))}

\* What the emitted line l has for the role papel
ValorDoPapel(l, papel) ==
    IF papel = "cd_local" THEN l.cd_local_votacao
    ELSE IF papel = "nm_local" THEN l.nm_local_votacao
    ELSE l.ds_local_votacao_endereco

\* C28 as stated: in a vote file each polling-place role has the cell of
\* the first column of the header that carries its marker, NULL without
\* such a column, and no two roles have the same column.
C28_PapeisEmColunasDistintas ==
    (saida # <<>> /\ saida[1].tabela = "votos" /\ saida[1].res.st = "ok") =>
        \A r \in 1..Len(saida[1].res.rows) :
            LET l == saida[1].res.rows[r]
            IN  /\ \A papel \in PAPEIS_DO_LOCAL :
                       IF PrimeirasComMarca(entrada.columns, papel) = {}
                       THEN ValorDoPapel(l, papel) = NULO
                       ELSE \A i \in PrimeirasComMarca(entrada.columns, papel) :
                                ValorDoPapel(l, papel) = QuadroDe(entrada).rows[r][i]
                /\ \A p, q \in PAPEIS_DO_LOCAL :
                       p # q =>
                           PrimeirasComMarca(entrada.columns, p) \cap
                               PrimeirasComMarca(entrada.columns, q) = {}

\* A section file with DS_LOCAL_VOTACAO_ENDERECO before NM_LOCAL_VOTACAO
\* went through: the emitted line has the address as the name of the place.
C28_Witness ==
    /\ saida # <<>>
    /\ entrada.columns = <<NR_CANDIDATO, QT_VOTOS, DS_LOCAL_VOTACAO_ENDERECO, NM_LOCAL_VOTACAO>>
    /\ saida[1].res.st = "ok"
    /\ Len(saida[1].res.rows) = 1
    /\ saida[1].res.rows[1].nm_local_votacao = T_Rua
    /\ saida[1].res.rows[1].ds_local_votacao_endereco = T_Rua


----------------------------------------------------------------------------
(* The order of the files in a run, under SpecLote *)

\* the files of the turns of a call, in the order of the turns
Nomes(processados) == [k \in 1..Len(processados) |-> processados[k].nome]

\* C25: a call of ingest_all takes the CSV files of the volume once each in
\* ascending order of name and ends after the last one: the turns of a call
\* in progress and the files it has left are the listing, the turns of a
\* call that ended are the whole listing, each turn is of the table the
\* name selects, and every line of a table comes from a file of that table.
C25_CadaArquivoUmaVezEmOrdem ==
    /\ exec.pc = "arquivos" => Nomes(exec.processados) \o exec.arquivos = glob_csv(volume)
    /\ \A i \in 1..Len(historia) :
          /\ Nomes(historia[i].processados) = glob_csv(volume)
          /\ \A k \in 1..Len(historia[i].processados) :
                historia[i].processados[k].tabela
                    = classificar(historia[i].processados[k].nome)
    /\ \A t \in Tabelas :
          \A k \in 1..Len(db[t].linhas) : classificar(db[t].linhas[k].arquivo_origem) = t

\* A call over two vote files and a candidate file ended at the rejected
\* append of the first one: the candidate file and the vote file listed
\* after it had no turn.
C25_Witness ==
    \E i \in 1..Len(historia) :
        /\ historia[i].st = "erro"
        /\ glob_csv(volume) = <<NOME_AMOSTRA, NOME_CAND_1, NOME_SECAO>>
        /\ Nomes(historia[i].processados) = <<NOME_AMOSTRA>>
        /\ db["votos"].linhas = <<>>


----------------------------------------------------------------------------
(* Calls that only append, under Spec *)

\* the lines a call that ended appended to a table
LinhasAcrescentadas(h, t) ==
    IF h.clear_table THEN h.db[t].linhas
    ELSE SubSeq(h.db[t].linhas, Len(h.db0[t].linhas) + 1, Len(h.db[t].linhas))

----------------------------------------------------------------------------
(* Requests beside a reload, under SpecServico *)

\* C21: a read query served while a reload is in progress, the table votos
\* being there when the reload started, ends without an error.
C21_ConsultaSemErroNaRecarga ==
    (pedido.de = "votos_por_zona" /\ pedido.em_recarga /\ pedido.havia_votos)
        => pedido.st = "ok"

\* GET /votos/zona was served after the DROP statements of a reload and
\* before the turn of the section file, which is still on the volume:
\* the table votos, loaded before the reload, was missing and the query
\* raised.
C21_Witness ==
    /\ pedido.de = "votos_por_zona"
    /\ pedido.em_recarga
    /\ pedido.havia_votos
    /\ pedido.st = "erro"
    /\ pedido.n = 1
    /\ ArqSecao \in volume
    /\ exec.pc = "arquivos"
    /\ exec.db0["votos"].linhas # <<>>
    /\ \E i \in 1..Len(exec.arquivos) : exec.arquivos[i] = NOME_SECAO


C29_ClearVolumeLevaOBanco ==
    [][(pedido'.n # pedido.n /\ pedido'.de = "clear_volume") =>
           /\ volume' = {}
           /\ \A t \in Tabelas : db'[t] = SemTabela
           /\ indices' = {}]_vars

\* The one call ever started was a reload that loaded the section file
\* and the candidate file and built the indexes.  POST /clear-volume was
\* then served: the volume is empty and the tables are gone.
C29_Witness ==
    /\ pedido.de = "clear_volume"
    /\ pedido.n = 1
    /\ nExec = 1
    /\ exec = Parado
    /\ Len(historia) = 1
    /\ historia[1].db["votos"].linhas # <<>>
    /\ historia[1].db["candidatos_meta"].linhas # <<>>
    /\ historia[1].indices # {}
    /\ volume = {}
    /\ \A t \in Tabelas : ~db[t].existe
    /\ indices = {}


----------------------------------------------------------------------------
(* A call that finds nothing to load, under SpecServico *)

\* no file that glob("*.csv") lists
SemCsv(vol) == \A a \in vol : ~EndsWith(a.name, EXT_CSV)

\* the call that ended last in the history h
UltimaDe(h) == h[Len(h)]

\* C27: a call of ingest_all that finds the directory missing or no CSV
\* file in it ends at once and normally, returns 0 and counts no line as
\* inserted; with clear_table=False the tables are as they were, with
\* clear_table=True the four tables are missing afterwards.
C27_NadaACarregar ==
    [][(nExec' = nExec + 1 /\ (~pasta \/ SemCsv(volume))) =>
           /\ Len(historia') = Len(historia) + 1
           /\ UltimaDe(historia').st = "ok"
           /\ \A t \in Tabelas : UltimaDe(historia').inseridas[t] = 0
           /\ exec'.total_votos = 0
           /\ exec'.pc \in {"idle", "criar_indices"}
           /\ exec'.pc = "idle" => resposta' = [st |-> "ok", registros_votos |-> 0]
           /\ IF UltimaDe(historia').clear_table
              THEN \A t \in Tabelas : db'[t] = SemTabela
              ELSE db' = db]_vars

\* ingest_all(clear_table=False) was called with the directory missing:
\* the call ended with the exception of sqlite3.connect.
C27_Witness ==
    /\ ~pasta
    /\ nExec = 1
    /\ Len(historia) = 1
    /\ ~historia[1].clear_table
    /\ historia[1].st = "erro"
    /\ historia[1].processados = <<>>
    /\ resposta.st = "erro"
    /\ exec = Parado

=============================================================================
